---- MODULE Spec2Model ----
(***************************************************************************)
(* Job lifecycle of the ComfyUI REST wrappers (api_wrapper.py of the       *)
(* fastwan2.2-5b, fastwan2.2-5b-network-storage and infinite-talk-v1       *)
(* deployments): the process-wide job_status map, the HTTP handlers and    *)
(* the wait_for_completion watcher that runs as a background task per job. *)
(***************************************************************************)
EXTENDS Integers, Sequences, FiniteSets, TLC

(* Number of uuid4 job ids drawn in a run; a bound of the model. *)
MaxJobs == 2

(* Number of submissions in a run of Spec, which delivers every kind of    *)
(* frame to each watcher; a bound of the model.                            *)
MaxWatched == 1

JobIds == 1..MaxJobs

(* The wrappers modelled; each is one api_wrapper.py. *)
Deployments == {"fastwan2.2-5b", "fastwan2.2-5b-network-storage", "infinite-talk-v1"}

(* Node ids that executed messages of the backend may report. *)
Nodes == {"58", "131"}

(* The final output node the watcher of a deployment waits for. *)
FinalNode(dep) == IF dep = "infinite-talk-v1" THEN "131" ELSE "58"

(* Run ids the backend assigns: one per job, <<"run", 0>> is a run of      *)
(* another client (or an absent prompt_id field).                          *)
PromptOf(j) == <<"run", j>>
PromptIds == {<<"run", k>> : k \in 0..MaxJobs}

(* Texts of the exceptions the watcher can meet. *)
ConnectErrors == {"[Errno 111] Connection refused"}
RecvErrors == {"Connection to remote host was lost."}
NotADictError == "'list' object has no attribute 'get'"
DefaultErrorText == "Unknown execution error"
Missing == "<missing>"
ExceptionMessages == {"CUDA OOM", Missing}

(* value and max of the progress messages tried. max divides 100 * value   *)
(* for every pair, so the float quotient of the code is an exact integer.  *)
ProgressValues == {-1, 1, 3}
ProgressMaxes == {-2, 0, 2}

(***************************************************************************)
(* Frames of the event stream, as ws.recv_frame() returns them.            *)
(* json: "object" a JSON object, "array" valid JSON that is no object,     *)
(* "invalid" text json.loads rejects. ok: the progress payload has the     *)
(* numeric fields value and max.                                           *)
(***************************************************************************)
Frame(opcode, json, type, ok, value, max, prompt_id, node, msg) ==
    [opcode |-> opcode, json |-> json, type |-> type, ok |-> ok, value |-> value,
     max |-> max, prompt_id |-> prompt_id, node |-> node, exception_message |-> msg]

Blank(opcode, json, type) ==
    Frame(opcode, json, type, FALSE, 0, 0, <<"run", 0>>, "none", Missing)

NoFrame == Blank("NOFRAME", "none", "none")

ProgressFrames ==
    {Frame("TEXT", "object", "progress", TRUE, v, m, <<"run", 0>>, "none", Missing) :
        v \in ProgressValues, m \in ProgressMaxes}
    \cup {Blank("TEXT", "object", "progress")}

ExecutedFrames ==
    {Frame("TEXT", "object", "executed", FALSE, 0, 0, p, n, Missing) :
        p \in PromptIds, n \in Nodes}

ErrorFrames ==
    {Frame("TEXT", "object", "execution_error", FALSE, 0, 0, p, "none", m) :
        p \in PromptIds, m \in ExceptionMessages}

OtherFrames ==
    {Blank("TEXT", "object", "status"), Blank("TEXT", "invalid", "none"),
     Blank("TEXT", "array", "none"), Blank("BINARY", "none", "none"),
     Blank("CONT", "none", "none"), Blank("PING", "none", "none"),
     Blank("PONG", "none", "none"), Blank("CLOSE", "none", "none"),
     Blank("NONE", "none", "none")}

Frames == ProgressFrames \cup ExecutedFrames \cup ErrorFrames \cup OtherFrames

(* The frames that end a run: the executed messages of the submitted runs  *)
(* and the close frame.                                                    *)
CoreFrames ==
    {f \in Frames :
        \/ f.type = "executed" /\ f.prompt_id # <<"run", 0>>
        \/ f.opcode = "CLOSE"}

(***************************************************************************)
(* Files of OUTPUT_DIR. dir: "root" is OUTPUT_DIR itself, "FastWan" the    *)
(* subfolder named by the filename prefix. api: the name holds "api_"      *)
(* right before the job id. job: the job id the name contains. audio: the  *)
(* name ends in "-audio" before the extension. size: os.path.getsize.      *)
(* fresh: the file was modified less than 300 seconds ago.                 *)
(***************************************************************************)
Dirs == {"root", "FastWan"}
Exts == {".mp4", ".avi", ".mkv", ".gif"}
Sizes == {0, 1, 2}
FileNames == [dir : Dirs, api : BOOLEAN, job : JobIds, audio : BOOLEAN, ext : Exts]
File(name, size, fresh) ==
    [dir |-> name.dir, api |-> name.api, job |-> name.job, audio |-> name.audio,
     ext |-> name.ext, size |-> size, fresh |-> fresh]
NameOf(f) ==
    [dir |-> f.dir, api |-> f.api, job |-> f.job, audio |-> f.audio, ext |-> f.ext]

(* The finished file the backend writes for a job, as each wrapper's       *)
(* workflow names it and where each wrapper finds it: api_{job_id}.mp4 in  *)
(* OUTPUT_DIR for the FastWan wrappers, {job_id}_00001-audio.mp4 for       *)
(* InfiniteTalk.                                                           *)
OutputFiles(dep) ==
    {File(n, 1, TRUE) : n \in {m \in FileNames :
        /\ m.dir = "root" /\ m.ext = ".mp4"
        /\ m.api = (dep # "infinite-talk-v1")
        /\ m.audio = (dep = "infinite-talk-v1")}}

(* Files present in OUTPUT_DIR at the same time; a bound of the model. *)
MaxFiles == 1

VARIABLES
    deployment,   \* which api_wrapper.py runs
    job_status,   \* the global job_status dict: job id -> record
    issued,       \* job ids uuid4 has returned so far
    watcher,      \* per job id, where its wait_for_completion task stands
    connects,     \* per job id, how often its watcher opened the event stream
    files,        \* the files in OUTPUT_DIR
    sleeping,     \* the get_job_status call suspended in asyncio.sleep, if any
    image_edit_service, \* the global ImageEditService of the Nunchaku service
    template,     \* the content of the file WORKFLOW_PATH, where it is followed
    stream,       \* per job id, what the backend sent for the run, where it is followed
    last          \* the last operation: its inputs and its response

vars == <<deployment, job_status, issued, watcher, connects, files, sleeping,
          image_edit_service, template, stream, last>>

(* Dict operations on job_status. *)
Put(m, k, v) == [x \in DOMAIN m \cup {k} |-> IF x = k THEN v ELSE m[x]]
Del(m, k) == [x \in DOMAIN m \ {k} |-> m[x]]
With(r, f, v) == [x \in DOMAIN r \cup {f} |-> IF x = f THEN v ELSE r[x]]

NoBody == [detail |-> "none"]
NoPath == [dir |-> "none", api |-> FALSE, job |-> 0, audio |-> FALSE, ext |-> "none",
           size |-> 0, fresh |-> FALSE]
NoSleep == [at |-> "none", job |-> 0, status |-> NoBody, path |-> NoPath]

(* sent: what the operation sent to the backend, NoSent for nothing.       *)
(* input: the request body and the workflow file a submission read.        *)
NoSent == [posts |-> 0]
NoInput == [body |-> "none"]
Event(op, j, code, body, frame, path) ==
    [op |-> op, job |-> j, code |-> code, body |-> body, frame |-> frame, path |-> path,
     sent |-> NoSent, input |-> NoInput]
Sent(ev, payload) == [ev EXCEPT !.sent = payload]
Read(ev, body, workflow) == [ev EXCEPT !.input = [body |-> body, workflow |-> workflow]]

(* main.py line 36: image_edit_service = None. created: the global holds   *)
(* an ImageEditService; _initialized, pipeline and transformer: its        *)
(* attributes, TRUE for a loaded object and FALSE for None; model_config:  *)
(* the entries of _model_config that update_config changes.                *)
NoService ==
    [created |-> FALSE, _initialized |-> FALSE, pipeline |-> FALSE,
     transformer |-> FALSE,
     model_config |-> [default_steps |-> 8, enable_cpu_offload |-> TRUE]]

(* The value of template where a specification hands each request the     *)
(* workflow it loads instead of following the file.                        *)
Untracked == [nodes |-> {"untracked"}]

(* The backend has sent nothing: per job id, pending is what lies unread   *)
(* in the socket the job's watcher opened, emitted whether the backend has *)
(* sent the message that ends the run.                                     *)
NoStream == [j \in JobIds |-> [pending |-> <<>>, emitted |-> FALSE]]

Init ==
    /\ deployment \in Deployments
    /\ job_status = <<>>
    /\ issued = {}
    /\ watcher = [j \in JobIds |-> "none"]
    /\ connects = [j \in JobIds |-> 0]
    /\ files = {}
    /\ sleeping = NoSleep
    /\ image_edit_service = NoService
    /\ template = Untracked
    /\ stream = NoStream
    /\ last = Event("start", 0, 0, NoBody, NoFrame, NoPath)


(***************************************************************************)
(* POST /generate. backend: the outcome of requests.post in                *)
(* queue_workflow. uuid4 is modelled as a generator of fresh ids.          *)
(***************************************************************************)
(* Variant: the id is taken from the number of records now in the map, so *)
(* the id of a deleted job is handed out again.                            *)
uuid4_FromMapSize == Cardinality(DOMAIN job_status) + 1

uuid4 == Cardinality(issued) + 1

(* The wrappers whose POST /generate is modelled with its workflow. *)
SubmitDeployments == Deployments \cup {"wan2.2-14b-loras-v1"}
FastWanDeployments == {"fastwan2.2-5b", "fastwan2.2-5b-network-storage"}

(* Values of request and workflow fields are written as their JSON text.  *)
(* None is Python's None, Unset a field the body leaves out. Truthy(v) is  *)
(* what "if v:" tests: None, 0 and the empty string are false.             *)
None == "None"
Unset == "<unset>"
Truthy(v) == v \notin {None, "0", ""}

(* The optional fields followed; the others are left out of every body. *)
Fields == {"negative_prompt", "seed", "steps"}

(* GenerateRequest: the default of the field in each wrapper *)
FieldDefault(dep, field) ==
    IF dep = "infinite-talk-v1"
    THEN CASE field = "negative_prompt" -> "bright tones"
           [] field = "seed" -> "2"
           [] field = "steps" -> "6"
    ELSE IF dep = "wan2.2-14b-loras-v1"
    THEN CASE field = "negative_prompt" -> "slow, slow motion"
           [] field = "seed" -> "1"
           [] field = "steps" -> "6"
    ELSE CASE field = "negative_prompt" -> None
           [] field = "seed" -> None
           [] field = "steps" -> "8"

(* Variant: a field the body leaves out is None, whatever its default. *)
GenerateRequest_NoDefaults(dep, body) ==
    [f \in Fields |-> IF body[f] = Unset THEN None ELSE body[f]]

(* pydantic: a field the body leaves out takes its default *)
GenerateRequest(dep, body) ==
    [f \in Fields |-> IF body[f] = Unset THEN FieldDefault(dep, f) ELSE body[f]]

(* The request bodies tried: each field left out or set, seed also 0. *)
Bodies ==
    {[negative_prompt |-> a, seed |-> b, steps |-> c] :
        a \in {Unset, "dark"}, b \in {Unset, "0", "7"}, c \in {Unset, "9"}}

(* The node keys modify_workflow patches, in the order it reaches them. *)
NodeKeys(dep) ==
    IF dep = "infinite-talk-v1"
    THEN <<"284", "125", "241", "128", "245", "246", "270", "194", "131">>
    ELSE IF dep = "wan2.2-14b-loras-v1"
    THEN <<"3", "4", "34", "36", "39", "101", "103", "106">>
    ELSE <<"6", "7", "3", "55", "57", "58">>

AllNodes(dep) == {NodeKeys(dep)[i] : i \in 1..Len(NodeKeys(dep))}

(* workflow_api.json as load_workflow reads it: the node keys it has and   *)
(* its own values of the fields.                                           *)
Template(nodes) ==
    [nodes |-> nodes, negative_prompt |-> "blurry", seed |-> "42", steps |-> "4",
     filename_prefix |-> <<"ComfyUI", 0>>]
FullTemplate(dep) == Template(AllNodes(dep))
Templates(dep) ==
    {FullTemplate(dep)} \cup {Template(AllNodes(dep) \ {n}) : n \in AllNodes(dep)}

(* The text before the job id in filename_prefix. *)
Prefix(dep) ==
    IF dep = "infinite-talk-v1" THEN ""
    ELSE IF dep = "wan2.2-14b-loras-v1" THEN "wan22_t2v/wan22_t2v_"
    ELSE "FastWan/api_"

(* uuid4 calls of one request: wan2.2-14b-loras-v1 draws one id in          *)
(* generate_video to name the input image and the job id in                *)
(* modify_workflow. The FastWan wrappers draw the id after the patches,    *)
(* the others before them.                                                 *)
Draws(dep) == IF dep = "wan2.2-14b-loras-v1" THEN 2 ELSE 1
DrawsFirst(dep) == dep \notin FastWanDeployments

(* The node keys a request makes modify_workflow subscript. The FastWan    *)
(* wrappers reach node 7 only for a true negative_prompt; their nodes 3,   *)
(* 55 and 57 are reached through the defaults of cfg, width and fps.       *)
Accessed(dep, request) ==
    IF dep \in FastWanDeployments
    THEN SelectSeq(NodeKeys(dep),
                   LAMBDA n : n # "7" \/ Truthy(request["negative_prompt"]))
    ELSE NodeKeys(dep)

(* the first key of seq that is not in nodes, None when all are *)
FirstMissing(seq, nodes) ==
    LET idx == {i \in 1..Len(seq) : seq[i] \notin nodes}
    IN IF idx = {} THEN None
       ELSE seq[CHOOSE i \in idx : \A k \in idx : i <= k]

(* Variant: the prefix is built from an id of its own. *)
filename_prefix_OwnId(dep, job_id) == <<Prefix(dep), job_id + 1>>

(* f"FastWan/api_{job_id}" and its like *)
filename_prefix(dep, job_id) == <<Prefix(dep), job_id>>

(* modify_workflow. wan2.2-14b-loras-v1 checks required_nodes and names    *)
(* the missing one; in the others the subscript raises KeyError, which     *)
(* the server answers with a bare 500. The FastWan wrappers patch a field  *)
(* under "if request.field:", the others assign every field.               *)
modify_workflow(dep, workflow, request, job_id) ==
    LET missing == FirstMissing(Accessed(dep, request), workflow.nodes)
        value(f) == IF dep \in FastWanDeployments /\ ~Truthy(request[f])
                    THEN workflow[f] ELSE request[f]
    IN IF missing # None
       THEN [code |-> 500, workflow |-> workflow,
             detail |-> IF dep = "wan2.2-14b-loras-v1"
                        THEN [detail |-> "Workflow missing required node", node |-> missing]
                        ELSE [detail |-> "Internal Server Error", node |-> None]]
       ELSE [code |-> 200, detail |-> NoBody,
             workflow |-> [nodes |-> workflow.nodes,
                           negative_prompt |-> value("negative_prompt"),
                           seed |-> value("seed"), steps |-> value("steps"),
                           filename_prefix |-> filename_prefix(dep, job_id)]]


(* Variant: a failed POST is sent a second time. *)
queue_workflow_Retries(client_id, backend) ==
    IF backend = "ok"
    THEN [code |-> 200, prompt_id |-> PromptOf(client_id), posts |-> 1]
    ELSE [code |-> 500, prompt_id |-> <<"run", 0>>, posts |-> 2]

(* requests.post, once; raise_for_status or a RequestException gives 500 *)
queue_workflow(client_id, backend) ==
    IF backend = "ok"
    THEN [code |-> 200, prompt_id |-> PromptOf(client_id), posts |-> 1]
    ELSE [code |-> 500, prompt_id |-> <<"run", 0>>, posts |-> 1]

(* generate_video. workflow: what load_workflow read; body: the JSON body  *)
(* of the request; backend: the outcome of requests.post. A failure of     *)
(* modify_workflow leaves the handler before anything is posted; an id     *)
(* drawn before the failure is used up. What becomes of template is left   *)
(* to the caller, which knows where the workflow came from.                *)
post_generate(workflow, body, backend) ==
    LET job_id == uuid4 + (Draws(deployment) - 1)
        request == GenerateRequest(deployment, body)
        modified == modify_workflow(deployment, workflow, request, job_id)
        queue_response == queue_workflow(job_id, backend)
        payload == [posts |-> queue_response.posts, client_id |-> job_id,
                    prompt |-> modified.workflow]
        record == [status |-> "queued", prompt_id |-> queue_response.prompt_id,
                   progress |-> 0]
    IN /\ Cardinality(issued) + Draws(deployment) <= MaxJobs
       /\ IF modified.code # 200
          THEN /\ issued' = IF DrawsFirst(deployment)
                            THEN issued \cup (uuid4..job_id) ELSE issued
               /\ UNCHANGED <<job_status, watcher>>
               /\ last' = Read(Event("generate", 0, modified.code, modified.detail,
                                     NoFrame, NoPath), body, workflow)
          ELSE /\ issued' = issued \cup (uuid4..job_id)
               /\ IF queue_response.code = 200
                  THEN /\ job_status' = Put(job_status, job_id,
                             IF deployment = "wan2.2-14b-loras-v1"
                             THEN With(record, "input_image", <<uuid4, "_input">>)
                             ELSE record)
                       /\ watcher' = [watcher EXCEPT ![job_id] = "scheduled"]
                       /\ last' = Read(Sent(Event("generate", job_id, 200,
                             [job_id |-> job_id, status |-> "queued",
                              message |-> "Video generation started"], NoFrame, NoPath),
                             payload), body, workflow)
                  ELSE /\ UNCHANGED <<job_status, watcher>>
                       /\ last' = Read(Sent(Event("generate", job_id, 500,
                             [detail |-> "Failed to queue workflow"], NoFrame, NoPath),
                             payload), body, workflow)
       /\ UNCHANGED <<stream, image_edit_service, deployment, connects, files, sleeping>>

(* POST /generate with a body that sets no optional field, on the full     *)
(* workflow template.                                                      *)
generate_video(backend) ==
    /\ post_generate(FullTemplate(deployment), [f \in Fields |-> Unset], backend)
    /\ UNCHANGED template

(***************************************************************************)
(* wait_for_completion(prompt_id, job_id), the background task of a job.   *)
(* Its arguments are those generate_video passed: PromptOf(j) and j.       *)
(***************************************************************************)
(* Variant: the watcher connects without writing the processing record. *)
WatcherConnect_KeepsQueued(j) ==
    /\ watcher[j] = "scheduled"
    /\ connects' = [connects EXCEPT ![j] = @ + 1]
    /\ watcher' = [watcher EXCEPT ![j] = "reading"]
    /\ last' = Sent(Event("ws_connect", j, 0, NoBody, NoFrame, NoPath), [clientId |-> j])
    /\ UNCHANGED <<stream, template, image_edit_service, deployment, job_status, issued, files, sleeping>>

(* websocket.create_connection, then the record is replaced. *)
WatcherConnect(j) ==
    /\ watcher[j] = "scheduled"
    /\ connects' = [connects EXCEPT ![j] = @ + 1]
    /\ job_status' = Put(job_status, j, [status |-> "processing", progress |-> 0])
    /\ watcher' = [watcher EXCEPT ![j] = "reading"]
    /\ last' = Sent(Event("ws_connect", j, 0, NoBody, NoFrame, NoPath), [clientId |-> j])
    /\ UNCHANGED <<stream, template, image_edit_service, deployment, issued, files, sleeping>>

(* create_connection raises: the except clause of line 171. *)
WatcherConnectFails(j, e) ==
    /\ watcher[j] = "scheduled"
    /\ connects' = [connects EXCEPT ![j] = @ + 1]
    /\ job_status' = Put(job_status, j, [status |-> "error", error |-> e])
    /\ watcher' = [watcher EXCEPT ![j] = "done"]
    /\ last' = Sent(Event("ws_connect_error", j, 0, [detail |-> e], NoFrame, NoPath),
                     [clientId |-> j])
    /\ UNCHANGED <<stream, template, image_edit_service, deployment, issued, files, sleeping>>

(* Variant: after a failed read the watcher is started again. *)
WatcherRecvFails_Reconnects(j, e) ==
    /\ watcher[j] = "reading"
    /\ job_status' = Put(job_status, j, [status |-> "error", error |-> e])
    /\ watcher' = [watcher EXCEPT ![j] = "scheduled"]
    /\ last' = Event("ws_recv_error", j, 0, [detail |-> e], NoFrame, NoPath)
    /\ UNCHANGED <<stream, template, image_edit_service, deployment, issued, connects, files, sleeping>>

(* ws.recv_frame raises: the except clause of line 171. *)
WatcherRecvFails(j, e) ==
    /\ watcher[j] = "reading"
    /\ job_status' = Put(job_status, j, [status |-> "error", error |-> e])
    /\ watcher' = [watcher EXCEPT ![j] = "done"]
    /\ last' = Event("ws_recv_error", j, 0, [detail |-> e], NoFrame, NoPath)
    /\ UNCHANGED <<stream, template, image_edit_service, deployment, issued, connects, files, sleeping>>

(* float(x) or d *)
FloatOr(x, d) == IF x = 0 THEN d ELSE x

(* a / b for b # 0, exact on the values tried *)
Quot(a, b) == IF b < 0 THEN (0 - a) \div (0 - b) ELSE a \div b

Min(a, b) == IF b < a THEN b ELSE a
Max(a, b) == IF b > a THEN b ELSE a

(* Variant: the percentage without the clamp. *)
Progress_Unclamped(value, max) ==
    Quot(FloatOr(value, 0) * 100, FloatOr(max, 1))

(* lines 134-136: max(0.0, min(100.0, (val / mx) * 100.0)) *)
Progress(value, max) ==
    LET val == FloatOr(value, 0)
        mx == FloatOr(max, 1)
    IN Max(0, Min(100, Quot(val * 100, mx)))

(* What a message does to the job map and to the loop: stop is TRUE when   *)
(* the loop is left (break, or an exception that reaches line 171).        *)
Continue(js) == [js |-> js, stop |-> FALSE]
Stop(js) == [js |-> js, stop |-> TRUE]

(* lines 132-139; a missing field, a non-number or a deleted record raise  *)
(* inside the try and are passed over                                      *)
OnProgress(js, j, f) ==
    IF f.ok /\ j \in DOMAIN js
    THEN Continue(Put(js, j, With(js[j], "progress", Progress(f.value, f.max))))
    ELSE Continue(js)

(* Variant: the record is completed but the loop is not left. *)
OnExecuted_NoBreak(dep, js, j, f) ==
    IF f.prompt_id = PromptOf(j) /\ f.node = FinalNode(dep)
    THEN Continue(Put(js, j, [status |-> "completed", progress |-> 100]))
    ELSE Continue(js)

(* Variant: the node of the message is not compared. *)
OnExecuted_AnyNode(dep, js, j, f) ==
    IF f.prompt_id = PromptOf(j)
    THEN Stop(Put(js, j, [status |-> "completed", progress |-> 100]))
    ELSE Continue(js)

(* Variant: completion keeps the progress the record had reached. *)
OnExecuted_KeepsProgress(dep, js, j, f) ==
    IF f.prompt_id = PromptOf(j) /\ f.node = FinalNode(dep)
    THEN Stop(Put(js, j, [status |-> "completed",
                          progress |-> IF j \in DOMAIN js /\ "progress" \in DOMAIN js[j]
                                       THEN js[j].progress ELSE 0]))
    ELSE Continue(js)

(* Variant: the record completed is the one of the run the message names, *)
(* whichever watcher read it.                                              *)
OnExecuted_KeyedByRun(dep, js, j, f) ==
    IF f.prompt_id[2] \in JobIds /\ f.node = FinalNode(dep)
    THEN [js |-> Put(js, f.prompt_id[2], [status |-> "completed", progress |-> 100]),
          stop |-> f.prompt_id = PromptOf(j)]
    ELSE Continue(js)

(* lines 141-147 *)
OnExecuted(dep, js, j, f) ==
    IF f.prompt_id = PromptOf(j) /\ f.node = FinalNode(dep)
    THEN Stop(Put(js, j, [status |-> "completed", progress |-> 100]))
    ELSE Continue(js)

(* Variant: the text of the message is dropped for the default text. *)
OnExecutionError_DefaultText(js, j, f) ==
    Stop(Put(js, j, [status |-> "error", error |-> DefaultErrorText]))

(* lines 149-155 *)
OnExecutionError(js, j, f) ==
    Stop(Put(js, j, [status |-> "error",
                     error |-> IF f.exception_message = Missing
                               THEN DefaultErrorText ELSE f.exception_message]))

(* Variant: the payload of every frame but a close frame is parsed, so a   *)
(* binary or control frame ends the watcher like JSON that is no object.   *)
HandleFrame_ParsesEveryFrame(dep, js, j, f) ==
    IF f.opcode = "CLOSE" THEN Stop(js)
    ELSE IF f.opcode = "TEXT" /\ f.json = "object" /\ f.type = "progress"
    THEN OnProgress(js, j, f)
    ELSE IF f.opcode = "TEXT" /\ f.json = "object" /\ f.type = "executed"
    THEN OnExecuted(dep, js, j, f)
    ELSE IF f.opcode = "TEXT" /\ f.json = "object" /\ f.type = "execution_error"
    THEN OnExecutionError(js, j, f)
    ELSE IF f.opcode = "TEXT" /\ f.json = "object" THEN Continue(js)
    ELSE Stop(Put(js, j, [status |-> "error", error |-> NotADictError]))

(* Variant: a close frame is treated as a failure of the run. *)
HandleFrame_CloseFails(dep, js, j, f) ==
    IF f.opcode = "TEXT"
    THEN IF f.json = "invalid" THEN Continue(js)
         ELSE IF f.json = "array"
         THEN Stop(Put(js, j, [status |-> "error", error |-> NotADictError]))
         ELSE IF f.type = "progress" THEN OnProgress(js, j, f)
         ELSE IF f.type = "executed" THEN OnExecuted(dep, js, j, f)
         ELSE IF f.type = "execution_error" THEN OnExecutionError(js, j, f)
         ELSE Continue(js)
    ELSE IF f.opcode = "CLOSE"
    THEN Stop(Put(js, j, [status |-> "error", error |-> "Connection closed"]))
    ELSE Continue(js)

(* lines 119-164: one frame. JSON that is no object makes data.get raise   *)
(* AttributeError, which reaches the except clause of line 171.            *)
HandleFrame(dep, js, j, f) ==
    IF f.opcode = "TEXT"
    THEN IF f.json = "invalid" THEN Continue(js)
         ELSE IF f.json = "array"
         THEN Stop(Put(js, j, [status |-> "error", error |-> NotADictError]))
         ELSE IF f.type = "progress" THEN OnProgress(js, j, f)
         ELSE IF f.type = "executed" THEN OnExecuted(dep, js, j, f)
         ELSE IF f.type = "execution_error" THEN OnExecutionError(js, j, f)
         ELSE Continue(js)
    ELSE IF f.opcode = "CLOSE" THEN Stop(js)
    ELSE Continue(js)

(* One turn of the while loop: recv_frame returned f. *)
WatcherRecv(j, f) ==
    /\ watcher[j] = "reading"
    /\ LET r == HandleFrame(deployment, job_status, j, f)
       IN /\ job_status' = r.js
          /\ watcher' = [watcher EXCEPT ![j] = IF r.stop THEN "done" ELSE "reading"]
    /\ last' = Event("ws_frame", j, 0, NoBody, f, NoPath)
    /\ UNCHANGED <<stream, template, image_edit_service, deployment, issued, connects, files, sleeping>>


(***************************************************************************)
(* find_output_video(job_id): the set of paths the call may return; the    *)
(* empty set stands for None. A glob yields its matches in directory       *)
(* order, so any match of the first pattern that matches may be returned.  *)
(***************************************************************************)
RECURSIVE FirstNonEmpty(_)
FirstNonEmpty(seq) ==
    IF seq = <<>> THEN {}
    ELSE IF Head(seq) # {} THEN Head(seq)
    ELSE FirstNonEmpty(Tail(seq))

(* glob(f"*{pattern}*{ext}") in one directory; api: the pattern holds "api_" *)
Glob(fs, dir, job_id, api, ext) ==
    {f \in fs : f.dir = dir /\ f.job = job_id /\ f.ext = ext /\ (api => f.api)}

BaseExts == <<".mp4", ".avi", ".mov", ".webm">>
NsExts == <<".mp4", ".avi", ".mov", ".webm", ".mkv">>
NsSearchPaths == <<"root", "FastWan">>

(* Variant: the search looks in the FastWan subfolder the filename prefix   *)
(* names, not in OUTPUT_DIR itself.                                        *)
find_output_video_base_InSubfolder(fs, job_id) ==
    FirstNonEmpty([i \in 1..Len(BaseExts) |-> Glob(fs, "FastWan", job_id, TRUE, BaseExts[i])])

(* fastwan2.2-5b: OUTPUT_DIR only, names holding api_{job_id} *)
find_output_video_base(fs, job_id) ==
    FirstNonEmpty([i \in 1..Len(BaseExts) |-> Glob(fs, "root", job_id, TRUE, BaseExts[i])])

(* fastwan2.2-5b-network-storage: per directory, per extension, the        *)
(* prefixed pattern and then the bare job id                               *)
find_output_video_ns(fs, job_id) ==
    LET n == Len(NsExts)
        step(k) == Glob(fs, NsSearchPaths[(k \div (2 * n)) + 1], job_id,
                        k % 2 = 0, NsExts[((k % (2 * n)) \div 2) + 1])
    IN FirstNonEmpty([i \in 1..(Len(NsSearchPaths) * n * 2) |-> step(i - 1)])

TalkAudioExts == <<".mp4", ".avi", ".mov", ".webm", ".mkv">>
TalkExts == <<".mp4", ".avi", ".mov", ".webm", ".mkv", ".gif">>

(* rglob(f"*{job_id}*-audio{ext}") and rglob(f"*{job_id}*{ext}") *)
RGlob(fs, job_id, audio, ext) ==
    {f \in fs : f.job = job_id /\ f.ext = ext /\ (audio => f.audio)}

(* PRIORITY 3: per extension the "-audio" files, or all files of the       *)
(* extension when it has none; the newest of them if it is fresh. Of       *)
(* several fresh files any may be the newest.                              *)
RecentVideos(fs) ==
    LET video_files == UNION {
            IF \E f \in fs : f.audio /\ f.ext = TalkAudioExts[i]
            THEN {f \in fs : f.audio /\ f.ext = TalkAudioExts[i]}
            ELSE {f \in fs : f.ext = TalkAudioExts[i]} : i \in 1..Len(TalkAudioExts)}
    IN {f \in video_files : f.fresh}

(* Variant: the search for "-audio" names is left out. *)
find_output_video_talk_NoAudioPass(fs, job_id) ==
    FirstNonEmpty(
        [i \in 1..Len(TalkExts) |-> RGlob(fs, job_id, FALSE, TalkExts[i])]
        \o <<RecentVideos(fs)>>)

(* infinite-talk-v1 *)
find_output_video_talk(fs, job_id) ==
    FirstNonEmpty(
        [i \in 1..Len(TalkAudioExts) |-> RGlob(fs, job_id, TRUE, TalkAudioExts[i])]
        \o [i \in 1..Len(TalkExts) |-> RGlob(fs, job_id, FALSE, TalkExts[i])]
        \o <<RecentVideos(fs)>>)

find_output_video(dep, fs, job_id) ==
    IF dep = "fastwan2.2-5b" THEN find_output_video_base(fs, job_id)
    ELSE IF dep = "fastwan2.2-5b-network-storage" THEN find_output_video_ns(fs, job_id)
    ELSE find_output_video_talk(fs, job_id)

(* Either some path the search may return, or NoPath for None. *)
Found(dep, fs, job_id) ==
    IF find_output_video(dep, fs, job_id) = {} THEN {NoPath}
    ELSE find_output_video(dep, fs, job_id)

(* The file now at the path found earlier, or NoPath when it is gone       *)
(* (os.path.getsize raises OSError, os.stat raises FileNotFoundError).     *)
Stat(fs, path) ==
    IF \E f \in fs : NameOf(f) = NameOf(path)
    THEN CHOOSE f \in fs : NameOf(f) = NameOf(path)
    ELSE NoPath

DownloadUrl(job_id) == <<"/download/", job_id>>
NotFoundMessage == "Video generation completed but file not found"
RetryMessage == "Video found after retry"
StillWrittenMessage == "Video file still being written"
EmptyMessage == "Video file is empty"
AccessErrorMessage == "Error accessing video file"

(* status["video_ready"] = True and the fields set with it *)
Ready(status, job_id) ==
    With(With(status, "video_ready", TRUE), "download_url", DownloadUrl(job_id))
ReadyAt(status, job_id, video_path) ==
    With(Ready(status, job_id), "video_path", NameOf(video_path))
(* status["video_ready"] = False with a message *)
NotReady(status, message) ==
    With(With(status, "video_ready", FALSE), "message", message)

(***************************************************************************)
(* GET /status/{job_id}                                                    *)
(***************************************************************************)
(* fastwan2.2-5b: status is the record itself, so the flags are written    *)
(* into the job map.                                                       *)
get_job_status_base(j) ==
    /\ deployment = "fastwan2.2-5b"
    /\ IF j \notin DOMAIN job_status
       THEN /\ last' = Event("status", j, 404, [detail |-> "Job not found"], NoFrame, NoPath)
            /\ UNCHANGED job_status
       ELSE IF job_status[j].status # "completed"
       THEN /\ last' = Event("status", j, 200, job_status[j], NoFrame, NoPath)
            /\ UNCHANGED job_status
       ELSE \E video_path \in Found(deployment, files, j) :
            LET status == IF video_path # NoPath
                          THEN Ready(job_status[j], j)
                          ELSE NotReady(job_status[j], NotFoundMessage)
            IN /\ job_status' = Put(job_status, j, status)
               /\ last' = Event("status", j, 200, status, NoFrame, video_path)
    /\ UNCHANGED <<stream, template, image_edit_service, deployment, issued, watcher, connects, files, sleeping>>

(* The other wrappers work on a copy of the record and suspend in          *)
(* asyncio.sleep: network-storage when the first search finds nothing,     *)
(* infinite-talk-v1 also when it finds a file, to watch its size.          *)
get_job_status_copy(j) ==
    /\ deployment # "fastwan2.2-5b"
    /\ sleeping = NoSleep
    /\ IF j \notin DOMAIN job_status
       THEN /\ last' = Event("status", j, 404, [detail |-> "Job not found"], NoFrame, NoPath)
            /\ UNCHANGED sleeping
       ELSE IF job_status[j].status # "completed"
       THEN /\ last' = Event("status", j, 200, job_status[j], NoFrame, NoPath)
            /\ UNCHANGED sleeping
       ELSE \E video_path \in Found(deployment, files, j) :
            IF video_path = NoPath
            THEN /\ sleeping' = [at |-> "retry", job |-> j, path |-> NoPath,
                                 status |-> NotReady(job_status[j], NotFoundMessage)]
                 /\ last' = Event("status_sleep", j, 0, NoBody, NoFrame, NoPath)
            ELSE IF deployment = "infinite-talk-v1"
            THEN /\ sleeping' = [at |-> "size", job |-> j, path |-> video_path,
                                 status |-> job_status[j]]
                 /\ last' = Event("status_sleep", j, 0, NoBody, NoFrame, video_path)
            ELSE /\ last' = Event("status", j, 200,
                                  ReadyAt(job_status[j], j, video_path), NoFrame, video_path)
                 /\ UNCHANGED sleeping
    /\ UNCHANGED <<stream, template, image_edit_service, deployment, job_status, issued, watcher, connects, files>>

(* the second search, after asyncio.sleep(1) *)
get_job_status_retry ==
    /\ sleeping.at = "retry"
    /\ \E video_path \in Found(deployment, files, sleeping.job) :
           last' = Event("status", sleeping.job, 200,
                IF video_path # NoPath
                   /\ (deployment = "infinite-talk-v1" => video_path.size > 0)
                THEN LET status == With(ReadyAt(sleeping.status, sleeping.job, video_path),
                                        "message", RetryMessage)
                     IN IF deployment = "infinite-talk-v1"
                        THEN With(status, "file_size", video_path.size)
                        ELSE status
                ELSE sleeping.status, NoFrame, video_path)
    /\ sleeping' = NoSleep
    /\ UNCHANGED <<stream, template, image_edit_service, deployment, job_status, issued, watcher, connects, files>>

(* infinite-talk-v1, lines 316-336: after asyncio.sleep(1) the size is     *)
(* read; a positive size is read again after asyncio.sleep(0.5).           *)
get_job_status_size ==
    /\ sleeping.at = "size"
    /\ LET now == Stat(files, sleeping.path)
       IN IF now = NoPath
          THEN /\ last' = Event("status", sleeping.job, 200,
                     NotReady(sleeping.status, AccessErrorMessage), NoFrame, sleeping.path)
               /\ sleeping' = NoSleep
          ELSE IF now.size > 0
          THEN /\ sleeping' = [sleeping EXCEPT !.at = "stable", !.path = now]
               /\ last' = Event("status_sleep", sleeping.job, 0, NoBody, NoFrame, now)
          ELSE /\ last' = Event("status", sleeping.job, 200,
                     NotReady(sleeping.status, EmptyMessage), NoFrame, sleeping.path)
               /\ sleeping' = NoSleep
    /\ UNCHANGED <<stream, template, image_edit_service, deployment, job_status, issued, watcher, connects, files>>

get_job_status_stable ==
    /\ sleeping.at = "stable"
    /\ LET now == Stat(files, sleeping.path)
       IN last' = Event("status", sleeping.job, 200,
                IF now = NoPath THEN NotReady(sleeping.status, AccessErrorMessage)
                ELSE IF now.size = sleeping.path.size
                THEN With(ReadyAt(sleeping.status, sleeping.job, sleeping.path),
                          "file_size", sleeping.path.size)
                ELSE NotReady(sleeping.status, StillWrittenMessage),
                NoFrame, sleeping.path)
    /\ sleeping' = NoSleep
    /\ UNCHANGED <<stream, template, image_edit_service, deployment, job_status, issued, watcher, connects, files>>

(***************************************************************************)
(* GET /download/{job_id}                                                  *)
(***************************************************************************)
(* media_type_map.get(file_ext.lower(), "video/mp4"); fastwan2.2-5b        *)
(* always answers video/mp4.                                               *)
MediaType(dep, ext) ==
    IF dep = "fastwan2.2-5b" THEN "video/mp4"
    ELSE IF ext = ".mp4" THEN "video/mp4"
    ELSE IF ext = ".avi" THEN "video/x-msvideo"
    ELSE IF ext = ".mov" THEN "video/quicktime"
    ELSE IF ext = ".webm" THEN "video/webm"
    ELSE IF ext = ".mkv" THEN "video/x-matroska"
    ELSE "video/mp4"

FileResponse(dep, j, video_path) ==
    [media_type |-> MediaType(dep, video_path.ext),
     filename |-> <<"generated_video_", j,
                    IF dep = "fastwan2.2-5b" THEN ".mp4" ELSE video_path.ext>>]

(* Variant: the state of the job is not looked at before the search. *)
download_video_AnyState(j, exists) ==
    /\ sleeping = NoSleep
    /\ IF j \notin DOMAIN job_status
       THEN /\ last' = Event("download", j, 404, [detail |-> "Job not found"], NoFrame, NoPath)
            /\ UNCHANGED sleeping
       ELSE \E video_path \in Found(deployment, files, j) :
            IF video_path = NoPath \/ ~exists
            THEN /\ last' = Event("download", j, 404,
                                  [detail |-> "Video file not found"], NoFrame, video_path)
                 /\ UNCHANGED sleeping
            ELSE /\ last' = Event("download", j, 200,
                                  FileResponse(deployment, j, video_path), NoFrame, video_path)
                 /\ UNCHANGED sleeping
    /\ UNCHANGED <<stream, template, image_edit_service, deployment, job_status, issued, watcher, connects, files>>

(* exists: what os.path.exists answers for the path the search returned,   *)
(* FALSE when the file went away in between. infinite-talk-v1 sleeps half  *)
(* a second before it hands the file to FileResponse.                      *)
download_video(j, exists) ==
    /\ sleeping = NoSleep
    /\ IF j \notin DOMAIN job_status
       THEN /\ last' = Event("download", j, 404, [detail |-> "Job not found"], NoFrame, NoPath)
            /\ UNCHANGED sleeping
       ELSE IF job_status[j].status # "completed"
       THEN /\ last' = Event("download", j, 400, [detail |-> "Video not ready"],
                             NoFrame, NoPath)
            /\ UNCHANGED sleeping
       ELSE \E video_path \in Found(deployment, files, j) :
            IF video_path = NoPath \/ ~exists
            THEN /\ last' = Event("download", j, 404,
                                  [detail |-> "Video file not found"], NoFrame, video_path)
                 /\ UNCHANGED sleeping
            ELSE IF deployment = "infinite-talk-v1"
            THEN /\ sleeping' = [at |-> "download", job |-> j, path |-> video_path,
                                 status |-> NoBody]
                 /\ last' = Event("download_sleep", j, 0, NoBody, NoFrame, video_path)
            ELSE /\ last' = Event("download", j, 200,
                                  FileResponse(deployment, j, video_path), NoFrame, video_path)
                 /\ UNCHANGED sleeping
    /\ UNCHANGED <<stream, template, image_edit_service, deployment, job_status, issued, watcher, connects, files>>

(* after asyncio.sleep(0.5): FileResponse stats the file when it is sent   *)
(* and fails with a RuntimeError, a 500, when the file is gone.            *)
download_video_send ==
    /\ sleeping.at = "download"
    /\ IF Stat(files, sleeping.path) = NoPath
       THEN last' = Event("download", sleeping.job, 500,
                          [detail |-> "Internal Server Error"], NoFrame, NoPath)
       ELSE last' = Event("download", sleeping.job, 200,
                          FileResponse(deployment, sleeping.job, sleeping.path),
                          NoFrame, sleeping.path)
    /\ sleeping' = NoSleep
    /\ UNCHANGED <<stream, template, image_edit_service, deployment, job_status, issued, watcher, connects, files>>

(* GET /jobs *)
list_jobs ==
    /\ last' = Event("list", 0, 200, [jobs |-> job_status], NoFrame, NoPath)
    /\ UNCHANGED <<stream, template, image_edit_service, deployment, job_status, issued, watcher, connects, files, sleeping>>

(* Variant: the record is removed only when the file could be removed. *)
delete_job_KeepsOnFailure(j, removed) ==
    /\ IF j \notin DOMAIN job_status
       THEN /\ last' = Event("delete", j, 404, [detail |-> "Job not found"], NoFrame, NoPath)
            /\ UNCHANGED <<job_status, files>>
       ELSE \E video_path \in Found(deployment, files, j) :
              /\ job_status' = IF video_path # NoPath /\ ~removed
                               THEN job_status ELSE Del(job_status, j)
              /\ files' = IF video_path # NoPath /\ removed
                          THEN files \ {video_path} ELSE files
              /\ last' = Event("delete", j, 200, [message |-> "Job deleted"],
                               NoFrame, video_path)
    /\ UNCHANGED <<stream, template, image_edit_service, deployment, issued, watcher, connects, sleeping>>

(* DELETE /jobs/{job_id}. removed: os.remove succeeded (an OSError is      *)
(* swallowed).                                                             *)
delete_job(j, removed) ==
    /\ IF j \notin DOMAIN job_status
       THEN /\ last' = Event("delete", j, 404, [detail |-> "Job not found"], NoFrame, NoPath)
            /\ UNCHANGED <<job_status, files>>
       ELSE /\ job_status' = Del(job_status, j)
            /\ \E video_path \in Found(deployment, files, j) :
                 /\ files' = IF video_path # NoPath /\ removed
                             THEN files \ {video_path} ELSE files
                 /\ last' = Event("delete", j, 200, [message |-> "Job deleted"],
                                  NoFrame, video_path)
    /\ UNCHANGED <<stream, template, image_edit_service, deployment, issued, watcher, connects, sleeping>>

(***************************************************************************)
(* The backend and the file system, outside the wrapper: files of          *)
(* submitted jobs appear in OUTPUT_DIR and may be removed again.           *)
(***************************************************************************)
BackendWrites(f) ==
    /\ f.job \in issued
    /\ \A g \in files : NameOf(g) # NameOf(f)
    /\ Cardinality(files) < MaxFiles
    /\ files' = files \cup {f}
    /\ last' = Event("file_written", f.job, 0, NoBody, NoFrame, f)
    /\ UNCHANGED <<stream, template, image_edit_service, deployment, job_status, issued, watcher, connects, sleeping>>

FileVanishes(f) ==
    /\ f \in files
    /\ files' = files \ {f}
    /\ last' = Event("file_removed", f.job, 0, NoBody, NoFrame, f)
    /\ UNCHANGED <<stream, template, image_edit_service, deployment, job_status, issued, watcher, connects, sleeping>>

(* The requests and events common to every run. *)
Requests ==
    \/ \E j \in JobIds : WatcherConnect(j)
    \/ \E j \in JobIds, e \in ConnectErrors : WatcherConnectFails(j, e)
    \/ \E j \in JobIds, e \in RecvErrors : WatcherRecvFails(j, e)
    \/ \E j \in JobIds : get_job_status_base(j)
    \/ \E j \in JobIds : get_job_status_copy(j)
    \/ get_job_status_retry
    \/ get_job_status_size
    \/ get_job_status_stable
    \/ \E j \in JobIds, exists \in BOOLEAN : download_video(j, exists)
    \/ download_video_send
    \/ list_jobs
    \/ \E j \in JobIds, removed \in BOOLEAN : delete_job(j, removed)
    \/ \E f \in OutputFiles(deployment) : BackendWrites(f)
    \/ \E f \in OutputFiles(deployment) : FileVanishes(f)

(* Spec: up to MaxWatched submissions, every frame of Frames. *)
Next ==
    \/ Cardinality(issued) < MaxWatched
         /\ \E backend \in {"ok", "error"} : generate_video(backend)
    \/ \E j \in JobIds, f \in Frames : WatcherRecv(j, f)
    \/ Requests

Spec == Init /\ [][Next]_vars

(* SpecJobs: up to MaxJobs submissions whose runs end by an executed      *)
(* message, a closed stream or a failure, before the backend has written  *)
(* any artifact.                                                           *)
NextJobs ==
    \/ \E backend \in {"ok", "error"} : generate_video(backend)
    \/ \E j \in JobIds : WatcherConnect(j)
    \/ \E j \in JobIds, e \in ConnectErrors : WatcherConnectFails(j, e)
    \/ \E j \in JobIds, f \in CoreFrames : WatcherRecv(j, f)
    \/ \E j \in JobIds, e \in RecvErrors : WatcherRecvFails(j, e)
    \/ \E j \in JobIds : get_job_status_base(j)
    \/ \E j \in JobIds : get_job_status_copy(j)
    \/ get_job_status_retry
    \/ \E j \in JobIds, exists \in BOOLEAN : download_video(j, exists)
    \/ list_jobs
    \/ \E j \in JobIds, removed \in BOOLEAN : delete_job(j, removed)

SpecJobs == Init /\ [][NextJobs]_vars

(* Any finished file whose name holds the id of a job: in OUTPUT_DIR or in *)
(* FastWan, of any extension; with or without "api_" where the workflow    *)
(* prefix is api_{job_id}, with or without "-audio" for InfiniteTalk.      *)
ArtifactFiles(dep) ==
    {File(n, 1, TRUE) : n \in {m \in FileNames :
        /\ m.audio => dep = "infinite-talk-v1"
        /\ m.api => dep # "infinite-talk-v1"}}

(* SpecFiles: one submission whose run ends by an executed message or a    *)
(* closed stream, while files of any name holding its id appear in and     *)
(* vanish from OUTPUT_DIR.                                                 *)
NextFiles ==
    \/ issued = {} /\ generate_video("ok")
    \/ \E j \in JobIds : WatcherConnect(j)
    \/ \E j \in JobIds, f \in CoreFrames : WatcherRecv(j, f)
    \/ \E j \in JobIds : get_job_status_base(j)
    \/ \E j \in JobIds : get_job_status_copy(j)
    \/ get_job_status_retry
    \/ get_job_status_size
    \/ get_job_status_stable
    \/ \E j \in JobIds, exists \in BOOLEAN : download_video(j, exists)
    \/ download_video_send
    \/ \E j \in JobIds, removed \in BOOLEAN : delete_job(j, removed)
    \/ \E f \in ArtifactFiles(deployment) : BackendWrites(f)
    \/ \E f \in ArtifactFiles(deployment) : FileVanishes(f)

SpecFiles == Init /\ [][NextFiles]_vars

(***************************************************************************)
(* Vocabulary of the properties.                                           *)
(***************************************************************************)
Known(j) == j \in DOMAIN job_status
StateOf(j) == job_status[j].status
Terminal(j) == Known(j) /\ StateOf(j) \in {"completed", "error"}
(* the job was submitted and its record has since been removed *)
Deleted(j) == watcher[j] # "none" /\ ~Known(j)
(* the frame the step delivered to the watcher of job j *)
Delivered(j, ev) == ev.op = "ws_frame" /\ ev.job = j
IsFinalExecuted(f, j) ==
    /\ f.opcode = "TEXT" /\ f.json = "object" /\ f.type = "executed"
    /\ f.prompt_id = PromptOf(j) /\ f.node = FinalNode(deployment)

(* C1: once the record of a job is Completed or Failed, no step changes    *)
(* its state: the record keeps the state, or a successful DELETE of that   *)
(* job removes it.                                                         *)
C1_TerminalStateStays ==
    [][\A j \in JobIds :
        Terminal(j) =>
            IF j \in DOMAIN job_status'
            THEN job_status'[j].status = StateOf(j)
            ELSE last'.op = "delete" /\ last'.job = j /\ last'.code = 200]_vars

(* C1 case: a terminal record has just been read by a status query, a      *)
(* download or a list call after its watcher ended.                        *)
C1_Witness ==
    /\ last.op \in {"status", "download", "list"}
    /\ \E j \in JobIds : Terminal(j) /\ watcher[j] = "done" /\ last.job \in {0, j}

(* C2: after a successful DELETE of a job its record stays absent, so      *)
(* every later GET /status/{id} answers 404.                               *)
C2_DeletedStaysNotFound ==
    [][\A j \in JobIds :
        Deleted(j) =>
            /\ j \notin DOMAIN job_status'
            /\ (last'.op = "status" /\ last'.job = j => last'.code = 404)]_vars

(* C3: a successful submission adds exactly one record, Queued with        *)
(* progress 0, under an id never issued before, leaves all other records   *)
(* alone and answers with that id and status queued.                       *)
C3_SubmissionCreatesOneQueuedRecord ==
    [][last'.op = "generate" /\ last'.code = 200 =>
        LET id == last'.job
        IN /\ id \notin issued
           /\ id \notin DOMAIN job_status
           /\ DOMAIN job_status' = DOMAIN job_status \cup {id}
           /\ \A k \in DOMAIN job_status : job_status'[k] = job_status[k]
           /\ job_status'[id].status = "queued"
           /\ job_status'[id].progress = 0
           /\ last'.body.job_id = id
           /\ last'.body.status = "queued"]_vars

(* C3 case: the second submission of a run has been answered. *)
C3_Witness ==
    /\ last.op = "generate" /\ last.code = 200
    /\ Cardinality(DOMAIN job_status) = 2
    /\ StateOf(last.job) = "queued"

(* The moves the lifecycle Queued -> Processing -> Completed | Failed      *)
(* allows a record that a step keeps in the map.                           *)
StrictMove(from, to) ==
    \/ from = to
    \/ from = "queued" /\ to = "processing"
    \/ from = "processing" /\ to \in {"completed", "error"}

(* C4 as claimed: a record only moves along Queued -> Processing ->        *)
(* Completed or Failed, and becomes terminal only from Processing.         *)
C4_StrictLifecycle ==
    [][\A j \in DOMAIN job_status \cap DOMAIN job_status' :
        StrictMove(StateOf(j), job_status'[j].status)]_vars

(* C4 amended: as above, except that a record moves from Queued straight   *)
(* to Failed when its watcher fails to open the event stream.              *)
C4_LifecycleWithConnectFailure ==
    [][\A j \in DOMAIN job_status \cap DOMAIN job_status' :
        \/ StrictMove(StateOf(j), job_status'[j].status)
        \/ /\ StateOf(j) = "queued" /\ job_status'[j].status = "error"
           /\ last'.op = "ws_connect_error" /\ last'.job = j]_vars

(* C4 case: a watcher could not connect and its job, never deleted, is     *)
(* Failed without having been Processing.                                  *)
C4_Witness ==
    /\ last.op = "ws_connect_error"
    /\ Known(last.job) /\ StateOf(last.job) = "error"

(* C5: a record becomes Completed only in a step that delivers to its own  *)
(* watcher an executed message with the job's run id and the deployment's  *)
(* final node; any other executed message leaves the job map as it is and  *)
(* the watcher reading.                                                    *)
C5_CompletedOnlyOnFinalExecuted ==
    [][\A j \in JobIds :
        /\ (j \in DOMAIN job_status' /\ job_status'[j].status = "completed"
              /\ ~(Known(j) /\ StateOf(j) = "completed"))
           => Delivered(j, last') /\ IsFinalExecuted(last'.frame, j)
        /\ (Delivered(j, last') /\ last'.frame.type = "executed"
              /\ ~IsFinalExecuted(last'.frame, j))
           => job_status' = job_status /\ watcher'[j] = "reading"]_vars

(* C5 case: an executed message of the job's own run for a node that is    *)
(* not the final one was delivered, and the job is still Processing.       *)
C5_Witness ==
    /\ last.op = "ws_frame" /\ last.frame.type = "executed"
    /\ last.frame.prompt_id = PromptOf(last.job)
    /\ last.frame.node # FinalNode(deployment)
    /\ Known(last.job) /\ StateOf(last.job) = "processing"
    /\ watcher[last.job] = "reading"


(* C6: the progress any record stores lies in [0, 100]. *)
C6_ProgressInRange ==
    \A j \in DOMAIN job_status :
        "progress" \in DOMAIN job_status[j] =>
            job_status[j].progress >= 0 /\ job_status[j].progress <= 100

(* C6 case: a progress message with value > max and max = 0 was delivered  *)
(* and the record stores 100.                                              *)
C6_Witness ==
    /\ last.op = "ws_frame" /\ last.frame.type = "progress" /\ last.frame.ok
    /\ last.frame.max = 0 /\ last.frame.value > last.frame.max
    /\ Known(last.job) /\ StateOf(last.job) = "processing"
    /\ job_status[last.job].progress = 100

(* C7: while a record is Processing no step lowers its progress. *)
C7_ProgressNeverDecreases ==
    [][\A j \in DOMAIN job_status \cap DOMAIN job_status' :
        StateOf(j) = "processing" /\ job_status'[j].status = "processing"
            => job_status'[j].progress >= job_status[j].progress]_vars

(* C8: an execution_error message delivered to a job's watcher makes the   *)
(* record Failed with the message's exception_message and ends the         *)
(* watcher; a Failed record keeps its error text while it exists, GET      *)
(* /status returns it as it is and GET /download answers 400.              *)
C8_ExecutionErrorFailsJob ==
    [][\A j \in JobIds :
        /\ (Delivered(j, last') /\ last'.frame.opcode = "TEXT"
              /\ last'.frame.json = "object" /\ last'.frame.type = "execution_error"
              /\ last'.frame.exception_message # Missing)
           => /\ j \in DOMAIN job_status'
              /\ job_status'[j] = [status |-> "error",
                                   error |-> last'.frame.exception_message]
              /\ watcher'[j] = "done"
        /\ (Known(j) /\ StateOf(j) = "error")
           => /\ j \in DOMAIN job_status' => job_status'[j] = job_status[j]
              /\ (last'.op = "status" /\ last'.job = j
                    => last'.code = 200 /\ last'.body = job_status[j])
              /\ (last'.op = "download" /\ last'.job = j => last'.code = 400)]_vars

(* C8 case: after an execution_error with text CUDA OOM a download of the  *)
(* job was answered 400.                                                   *)
C8_Witness ==
    /\ last.op = "download" /\ last.code = 400
    /\ Known(last.job) /\ job_status[last.job] = [status |-> "error", error |-> "CUDA OOM"]
    /\ watcher[last.job] = "done"

(* C9: an exception while the watcher opens or reads the event stream      *)
(* makes the record Failed with the exception text and ends the watcher;   *)
(* an ended watcher stays ended and no watcher connects twice.             *)
C9_StreamExceptionFailsJob ==
    [][\A j \in JobIds :
        /\ (last'.op \in {"ws_connect_error", "ws_recv_error"} /\ last'.job = j)
           => /\ j \in DOMAIN job_status'
              /\ job_status'[j] = [status |-> "error", error |-> last'.body.detail]
              /\ watcher'[j] = "done"
        /\ watcher[j] = "done" => watcher'[j] = "done"
        /\ connects'[j] <= 1]_vars

(* C9 case: reading the stream raised and the watcher has ended with the   *)
(* job Failed.                                                             *)
C9_Witness ==
    /\ last.op = "ws_recv_error"
    /\ Known(last.job) /\ StateOf(last.job) = "error"
    /\ job_status[last.job].error \in RecvErrors
    /\ watcher[last.job] = "done" /\ connects[last.job] = 1

(* C10: a download of a known job that is not Completed is answered 400    *)
(* and no file is served.                                                  *)
C10_DownloadBeforeCompletion ==
    (last.op = "download" /\ Known(last.job) /\ StateOf(last.job) # "completed")
        => last.code = 400 /\ last.path = NoPath

(* C10 case: the download was refused although the search for the job's    *)
(* file would have found one.                                              *)
C10_Witness ==
    /\ last.op = "download" /\ last.code = 400
    /\ Known(last.job) /\ StateOf(last.job) \in {"queued", "processing", "error"}
    /\ find_output_video(deployment, files, last.job) # {}
    /\ \E f \in files : f.job = last.job

(* The content type the extension table names for an extension, video/mp4  *)
(* for any other.                                                          *)
TableType(ext) ==
    IF ext = ".avi" THEN "video/x-msvideo"
    ELSE IF ext = ".mov" THEN "video/quicktime"
    ELSE IF ext = ".webm" THEN "video/webm"
    ELSE IF ext = ".mkv" THEN "video/x-matroska"
    ELSE "video/mp4"

(* The paths the download that answers in this step resolved: those of the *)
(* search made by the request, before its sleep if it slept.               *)
Resolved(j) ==
    IF sleeping.at = "download" /\ sleeping.job = j THEN {sleeping.path}
    ELSE find_output_video(deployment, files, j)

(* C11: a download of a Completed job answers 404 when the search finds    *)
(* nothing or the path found no longer exists, and otherwise 200 with the  *)
(* file found and the content type the extension table gives its           *)
(* extension.                                                              *)
C11_DownloadOfCompleted ==
    [][(last'.op = "download" /\ Known(last'.job) /\ StateOf(last'.job) = "completed")
        => IF Resolved(last'.job) = {}
           THEN last'.code = 404
           ELSE /\ last'.path \in Resolved(last'.job)
                /\ \/ last'.code = 404
                   \/ /\ last'.code = 200
                      /\ last'.body.media_type = TableType(last'.path.ext)]_vars

(* C12: a status answer for a Completed job carries video_ready, which is  *)
(* TRUE exactly when the search that answers (the first, or the one retry  *)
(* after the sleep) found a file; with TRUE it carries download_url =       *)
(* /download/{id}, with FALSE it carries no download_url.                  *)
C12_ReadinessFollowsResolution ==
    [][(last'.op = "status" /\ last'.code = 200 /\ last'.body.status = "completed")
        => /\ "video_ready" \in DOMAIN last'.body
           /\ last'.body.video_ready <=> (last'.path # NoPath)
           /\ IF last'.body.video_ready
              THEN /\ "download_url" \in DOMAIN last'.body
                   /\ last'.body.download_url = DownloadUrl(last'.job)
              ELSE "download_url" \notin DOMAIN last'.body]_vars

(***************************************************************************)
(* SpecFind: find_output_video as a function of the directory. OUTPUT_DIR  *)
(* holds up to MaxFiles + 1 files when the wrapper starts, and the search  *)
(* is applied for each job id.                                             *)
(***************************************************************************)
(* the sets of at most n elements of S *)
RECURSIVE UpTo(_, _)
UpTo(S, n) ==
    IF n = 0 THEN {{}}
    ELSE UpTo(S, n - 1) \cup {T \cup {x} : T \in UpTo(S, n - 1), x \in S}

InitFind ==
    /\ deployment \in Deployments
    /\ job_status = <<>>
    /\ issued = {}
    /\ watcher = [j \in JobIds |-> "none"]
    /\ connects = [j \in JobIds |-> 0]
    /\ files \in UpTo(ArtifactFiles(deployment), MaxFiles + 1)
    /\ sleeping = NoSleep
    /\ image_edit_service = NoService
    /\ template = Untracked
    /\ stream = NoStream
    /\ last = Event("start", 0, 0, NoBody, NoFrame, NoPath)

(* find_output_video(job_id) returns video_path, NoPath for None *)
Resolve(job_id) ==
    /\ \E video_path \in Found(deployment, files, job_id) :
          last' = Event("find", job_id, 0, NoBody, NoFrame, video_path)
    /\ UNCHANGED <<stream, template, image_edit_service, deployment, job_status, issued, watcher, connects, files, sleeping>>

NextFind == \E job_id \in JobIds : Resolve(job_id)

SpecFind == InitFind /\ [][NextFind]_vars

(* OUTPUT_DIR holds a plain file and an "-audio" file of job j *)
HoldsBoth(j) ==
    /\ \E f \in files : f.job = j /\ ~f.audio
    /\ \E f \in files : f.job = j /\ f.audio

ApiMp4(j) ==
    File([dir |-> "root", api |-> TRUE, job |-> j, audio |-> FALSE, ext |-> ".mp4"],
         1, TRUE)

InitSubmit ==
    /\ deployment \in SubmitDeployments
    /\ job_status = <<>>
    /\ issued = {}
    /\ watcher = [j \in JobIds |-> "none"]
    /\ connects = [j \in JobIds |-> 0]
    /\ files = {}
    /\ sleeping = NoSleep
    /\ image_edit_service = NoService
    /\ template = Untracked
    /\ stream = NoStream
    /\ last = Event("start", 0, 0, NoBody, NoFrame, NoPath)

NextSubmit ==
    \/ \E workflow \in Templates(deployment), body \in Bodies, backend \in {"ok", "error"} :
          post_generate(workflow, body, backend) /\ UNCHANGED template
    \/ \E j \in JobIds : WatcherConnect(j)
    \/ \E j \in JobIds, e \in ConnectErrors : WatcherConnectFails(j, e)
    \/ \E j \in JobIds, removed \in BOOLEAN : delete_job(j, removed)

SpecSubmit == InitSubmit /\ [][NextSubmit]_vars

(* the step is a POST /generate that was answered with a job id *)
Answered(ev) == ev.op = "generate" /\ ev.code = 200

(* C15: the id a submission returns as job_id is the key of the one record *)
(* it adds, the client_id it posted to the backend, the id in the          *)
(* filename_prefix of the posted workflow, and the job whose watcher it    *)
(* scheduled; a watcher opens its event stream with clientId = the id of   *)
(* the job it was scheduled for.                                           *)
C15_OneIdEverywhere ==
    [][/\ Answered(last') =>
            LET id == last'.body.job_id
            IN /\ DOMAIN job_status' = DOMAIN job_status \cup {id}
               /\ id \notin DOMAIN job_status
               /\ last'.sent.client_id = id
               /\ last'.sent.prompt.filename_prefix = <<Prefix(deployment), id>>
               /\ job_status'[id].prompt_id = PromptOf(id)
               /\ watcher[id] = "none" /\ watcher'[id] = "scheduled"
               /\ \A k \in JobIds \ {id} : watcher'[k] = watcher[k]
       /\ last'.op \in {"ws_connect", "ws_connect_error"} =>
            /\ watcher[last'.sent.clientId] = "scheduled"
            /\ watcher'[last'.sent.clientId] # "scheduled"
            /\ \A k \in JobIds \ {last'.sent.clientId} : watcher'[k] = watcher[k]]_vars

(* wan2.2-14b-loras-v1, which draws two ids per request: the watcher of    *)
(* the job has subscribed under the id the submission returned             *)
C15_Witness ==
    /\ deployment = "wan2.2-14b-loras-v1"
    /\ last.op = "ws_connect" /\ last.sent.clientId = last.job
    /\ Known(last.job) /\ StateOf(last.job) = "processing"
    /\ last.job \in issued /\ Cardinality(issued) > 1

(* the step is a POST /generate whose POST to the backend queue failed *)
QueueFailed(ev) == ev.op = "generate" /\ ev.sent.posts > 0 /\ ev.code # 200

(* C16: when the POST to the backend queue fails, the request is answered  *)
(* 500 after one POST, the job map is as it was, and no watcher is         *)
(* scheduled.                                                              *)
C16_FailedSubmissionLeavesNoJob ==
    [][QueueFailed(last') =>
        /\ last'.code = 500
        /\ last'.sent.posts = 1
        /\ job_status' = job_status
        /\ watcher' = watcher]_vars

(* a failed submission while the map holds the record of an earlier job *)
C16_Witness ==
    /\ QueueFailed(last) /\ last.code = 500
    /\ job_status # <<>>
    /\ last.job \notin DOMAIN job_status /\ watcher[last.job] = "none"

(* C17 as claimed: a submission on a workflow file that lacks a node key   *)
(* the wrapper patches is answered 500 with the missing node named, posts  *)
(* nothing, and leaves the job map and the watchers as they were.          *)
C17_MissingNodeFailsFast ==
    [][(last'.op = "generate"
          /\ ~(AllNodes(deployment) \subseteq last'.input.workflow.nodes))
        => /\ last'.code = 500
           /\ last'.body.node \in AllNodes(deployment) \ last'.input.workflow.nodes
           /\ last'.sent = NoSent
           /\ job_status' = job_status
           /\ watcher' = watcher]_vars

MaxImages == 2

EditOutcomes == {"ok", "bad_image", "inference_error"}
InitOutcomes == {"ok", "pipeline_error", "transformer_error"}
Configs ==
    {[default_steps |-> 4], [default_steps |-> 99], [default_rank |-> 128],
     [enable_cpu_offload |-> FALSE]}
OffloadOutcomes == {"ok", "offload_error"}
Batches == UNION {[1..n -> EditOutcomes] : n \in 0..MaxImages}

NotInitialized == "Service not initialized"
NotAvailable == "Image edit service not available"
EditFailed == "Image editing failed"
NoError == "none"

(* ImageEditService.__init__, lines 36-58 *)
ImageEditService_init == [NoService EXCEPT !.created = TRUE]

CleanupOutcomes == {"ok", "cuda_error"}

(* ImageEditService.cleanup, lines 353-382: the components are cleared     *)
(* first (lines 359-369), then torch.cuda.empty_cache() and gc.collect()   *)
(* run, then _initialized is reset (line 378); an exception raised in      *)
(* between is caught by line 381 and the flag keeps its value.             *)
ImageEditService_cleanup(svc, outcome) ==
    [svc EXCEPT !.pipeline = FALSE, !.transformer = FALSE,
                !._initialized = IF outcome = "ok" THEN FALSE ELSE @]

(* ImageEditService.initialize with _load_models, lines 84-156: the result *)
(* is the service afterwards and the error raised, if any. The cleanup of  *)
(* line 117 runs with _initialized still False, so both of its outcomes    *)
(* leave the same service.                                                 *)
ImageEditService_initialize(svc, outcome) ==
    IF svc._initialized THEN [svc |-> svc, error |-> NoError]
    ELSE IF outcome = "pipeline_error"
    THEN [svc |-> ImageEditService_cleanup(svc, "ok"),
          error |-> "Service initialization failed"]
    ELSE IF outcome = "transformer_error"
    THEN [svc |-> ImageEditService_cleanup([svc EXCEPT !.pipeline = TRUE], "ok"),
          error |-> "Service initialization failed"]
    ELSE [svc |-> [svc EXCEPT !.pipeline = TRUE, !.transformer = TRUE,
                              !._initialized = TRUE],
          error |-> NoError]

(* ImageEditService.is_initialized, lines 349-351 *)
is_initialized(svc) == svc._initialized

(* ImageEditService.edit_image, lines 199-288: load_image raises before    *)
(* the pipeline is called, or the pipeline call itself raises, or the      *)
(* edited image is returned. pipeline_calls counts self.pipeline(...).     *)
ImageEditService_edit_image(svc, outcome) ==
    IF ~svc._initialized THEN [error |-> NotInitialized, pipeline_calls |-> 0]
    ELSE IF outcome = "bad_image" THEN [error |-> EditFailed, pipeline_calls |-> 0]
    ELSE IF outcome = "inference_error" THEN [error |-> EditFailed, pipeline_calls |-> 1]
    ELSE [error |-> NoError, pipeline_calls |-> 1]

(* ImageEditService.get_model_info, lines 290-310 *)
ImageEditService_get_model_info(svc) ==
    IF ~svc._initialized
    THEN [error |-> NotInitialized, default_steps |-> 0]
    ELSE [error |-> NoError, default_steps |-> svc.model_config.default_steps]

(* ImageEditService.update_config, lines 312-347, for a config of one key: *)
(* default_steps is taken when it is an int in 1..50, enable_cpu_offload   *)
(* is stored and then _apply_memory_optimizations runs (and may raise),    *)
(* default_rank 128 changes nothing that is kept here.                     *)
ImageEditService_update_config(svc, config, outcome) ==
    IF ~svc._initialized THEN [svc |-> svc, error |-> NotInitialized]
    ELSE IF "default_steps" \in DOMAIN config
    THEN IF config.default_steps >= 1 /\ config.default_steps <= 50
         THEN [svc |-> [svc EXCEPT !.model_config.default_steps = config.default_steps],
               error |-> NoError]
         ELSE [svc |-> svc, error |-> NoError]
    ELSE IF "enable_cpu_offload" \in DOMAIN config
    THEN [svc |-> [svc EXCEPT !.model_config.enable_cpu_offload =
                                  config.enable_cpu_offload],
          error |-> IF outcome = "offload_error" THEN "offload failed" ELSE NoError]
    ELSE [svc |-> svc, error |-> NoError]

(* models/api_models.py lines 67-72 and utils/error_handler.py line 99:    *)
(* ErrorResponse(...).model_dump(), each field with the Python type of its *)
(* value; timestamp is a datetime object.                                  *)
ErrorResponse_model_dump ==
    [error |-> "str", detail |-> "str", timestamp |-> "datetime",
     request_id |-> "str", traceback |-> "NoneType"]

(* What json.dumps, which JSONResponse renders its content with, encodes.  *)
JsonTypes == {"str", "int", "float", "bool", "NoneType", "dict", "list"}

(* JSONResponse(status_code=..., content=...): rendering raises TypeError  *)
(* for a value json.dumps cannot encode.                                   *)
JSONResponse(status_code, content) ==
    IF \A f \in DOMAIN content : content[f] \in JsonTypes
    THEN [code |-> status_code, raised |-> NoError]
    ELSE [code |-> 0, raised |-> "TypeError"]

(* utils/error_handler.py http_exception_handler, lines 160-169 *)
http_exception_handler(status_code) == JSONResponse(status_code, ErrorResponse_model_dump)

(* utils/error_handler.py general_exception_handler, lines 172-185 *)
general_exception_handler == JSONResponse(500, ErrorResponse_model_dump)

(* setup_error_handlers, lines 188-201: an HTTPException raised by a route *)
(* goes to http_exception_handler; what that handler raises goes to the    *)
(* handler registered for Exception; what that one raises leaves the       *)
(* application, and the server answers a plain 500.                        *)
RaiseHTTPException(status_code, detail) ==
    LET first == http_exception_handler(status_code)
        second == general_exception_handler
    IN  IF first.raised = NoError THEN [code |-> first.code, detail |-> detail]
        ELSE IF second.raised = NoError THEN [code |-> second.code, detail |-> first.raised]
        ELSE [code |-> 500, detail |-> "Internal Server Error"]

(* the guard every route starts with, main.py lines 145, 182, 197, 224 *)
Available(svc) == svc.created /\ is_initialized(svc)

WrapperIdle ==
    UNCHANGED <<stream, template, deployment, job_status, issued, watcher, connects, files,
                sleeping>>

EditEvent(op, code, body, calls) ==
    Sent(Event(op, 0, code, body, NoFrame, NoPath), [pipeline_calls |-> calls])

(* lifespan, main.py lines 50-51 and 58-60: the service is created and     *)
(* initialized; a failure is raised again and the global keeps the         *)
(* service that cleanup has emptied.                                       *)
lifespan_startup(outcome) ==
    /\ ~image_edit_service.created
    /\ LET r == ImageEditService_initialize(ImageEditService_init, outcome)
       IN  /\ image_edit_service' = r.svc
           /\ last' = EditEvent("lifespan_startup", 0, [detail |-> r.error], 0)
    /\ WrapperIdle

(* a direct call of ImageEditService.initialize on the existing service *)
initialize(outcome) ==
    /\ image_edit_service.created
    /\ LET r == ImageEditService_initialize(image_edit_service, outcome)
       IN  /\ image_edit_service' = r.svc
           /\ last' = EditEvent("initialize", 0, [detail |-> r.error], 0)
    /\ WrapperIdle

(* lifespan shutdown, main.py lines 66-67, or a direct call of cleanup *)
cleanup(outcome) ==
    /\ image_edit_service.created
    /\ image_edit_service' = ImageEditService_cleanup(image_edit_service, outcome)
    /\ last' = EditEvent("cleanup", 0, [detail |-> NoError], 0)
    /\ WrapperIdle

(* POST /edit-image, main.py lines 132-174 *)
edit_image(outcome) ==
    /\ IF ~Available(image_edit_service)
       THEN LET r == RaiseHTTPException(503, NotAvailable)
            IN  last' = EditEvent("edit_image", r.code, [detail |-> r.detail], 0)
       ELSE LET r == ImageEditService_edit_image(image_edit_service, outcome)
            IN  last' = EditEvent("edit_image", 200,
                                  [detail |-> r.error, success |-> r.error = NoError],
                                  r.pipeline_calls)
    /\ UNCHANGED image_edit_service
    /\ WrapperIdle

RECURSIVE CountCalls(_, _, _)
(* the loop of batch_edit_image, main.py lines 235-274: the pipeline calls *)
(* made for images i..Len(images)                                          *)
CountCalls(svc, images, i) ==
    IF i > Len(images) THEN 0
    ELSE ImageEditService_edit_image(svc, images[i]).pipeline_calls
         + CountCalls(svc, images, i + 1)

(* POST /batch-edit-image, main.py lines 211-289 *)
batch_edit_image(images) ==
    /\ IF ~Available(image_edit_service)
       THEN LET r == RaiseHTTPException(503, NotAvailable)
            IN  last' = EditEvent("batch_edit_image", r.code, [detail |-> r.detail], 0)
       ELSE LET processed_count ==
                    Cardinality({i \in 1..Len(images) :
                        ImageEditService_edit_image(image_edit_service, images[i]).error
                            = NoError})
            IN  last' = EditEvent("batch_edit_image", 200,
                                  [detail |-> NoError, success |-> processed_count > 0,
                                   processed_count |-> processed_count,
                                   failed_count |-> Len(images) - processed_count],
                                  CountCalls(image_edit_service, images, 1))
    /\ UNCHANGED image_edit_service
    /\ WrapperIdle

(* GET /model-info, main.py lines 177-189 *)
get_model_info ==
    /\ IF ~Available(image_edit_service)
       THEN LET r == RaiseHTTPException(503, NotAvailable)
            IN  last' = EditEvent("get_model_info", r.code, [detail |-> r.detail], 0)
       ELSE LET r == ImageEditService_get_model_info(image_edit_service)
            IN  last' = EditEvent("get_model_info", 200,
                                  [detail |-> r.error, default_steps |-> r.default_steps], 0)
    /\ UNCHANGED image_edit_service
    /\ WrapperIdle

(* POST /model-config, main.py lines 192-208 *)
update_model_config(config, outcome) ==
    /\ IF ~Available(image_edit_service)
       THEN LET r == RaiseHTTPException(503, NotAvailable)
            IN  /\ last' = EditEvent("update_model_config", r.code, [detail |-> r.detail], 0)
                /\ UNCHANGED image_edit_service
       ELSE LET u == ImageEditService_update_config(image_edit_service, config, outcome)
                r == RaiseHTTPException(400, u.error)
            IN  /\ image_edit_service' = u.svc
                /\ last' = IF u.error = NoError
                           THEN EditEvent("update_model_config", 200,
                                          [detail |-> NoError, success |-> TRUE], 0)
                           ELSE EditEvent("update_model_config", r.code,
                                          [detail |-> r.detail], 0)
    /\ WrapperIdle

(* direct calls of the service's methods, as tests/test_api.py makes them: *)
(* the event holds the error raised (code 0: no HTTP response).            *)
call_edit_image(outcome) ==
    /\ image_edit_service.created
    /\ LET r == ImageEditService_edit_image(image_edit_service, outcome)
       IN  last' = EditEvent("ImageEditService.edit_image", 0, [detail |-> r.error],
                             r.pipeline_calls)
    /\ UNCHANGED image_edit_service
    /\ WrapperIdle

call_get_model_info ==
    /\ image_edit_service.created
    /\ LET r == ImageEditService_get_model_info(image_edit_service)
       IN  last' = EditEvent("ImageEditService.get_model_info", 0, [detail |-> r.error], 0)
    /\ UNCHANGED image_edit_service
    /\ WrapperIdle

call_update_config(config, outcome) ==
    /\ image_edit_service.created
    /\ LET u == ImageEditService_update_config(image_edit_service, config, outcome)
       IN  /\ image_edit_service' = u.svc
           /\ last' = EditEvent("ImageEditService.update_config", 0, [detail |-> u.error], 0)
    /\ WrapperIdle

InitEdit ==
    /\ deployment = "qwen-image-edit-nunchanku"
    /\ job_status = <<>>
    /\ issued = {}
    /\ watcher = [j \in JobIds |-> "none"]
    /\ connects = [j \in JobIds |-> 0]
    /\ files = {}
    /\ sleeping = NoSleep
    /\ image_edit_service = NoService
    /\ template = Untracked
    /\ stream = NoStream
    /\ last = Event("start", 0, 0, NoBody, NoFrame, NoPath)

NextEdit ==
    \/ \E outcome \in InitOutcomes : lifespan_startup(outcome)
    \/ \E outcome \in InitOutcomes : initialize(outcome)
    \/ \E outcome \in CleanupOutcomes : cleanup(outcome)
    \/ \E outcome \in EditOutcomes : edit_image(outcome)
    \/ \E images \in Batches : batch_edit_image(images)
    \/ get_model_info
    \/ \E config \in Configs, outcome \in OffloadOutcomes : update_model_config(config, outcome)
    \/ \E outcome \in EditOutcomes : call_edit_image(outcome)
    \/ call_get_model_info
    \/ \E config \in Configs, outcome \in OffloadOutcomes : call_update_config(config, outcome)

SpecEdit == InitEdit /\ [][NextEdit]_vars

(* The step is a request to one of the four guarded routes.                *)
RouteStep ==
    last'.op \in {"edit_image", "batch_edit_image", "get_model_info", "update_model_config"}
(* The step is a direct call of one of the three guarded service methods.  *)
MethodStep ==
    last'.op \in {"ImageEditService.edit_image", "ImageEditService.get_model_info",
                  "ImageEditService.update_config"}

(* C20: while the image edit service is absent or not initialized, a       *)
(* request to /edit-image, /batch-edit-image, /model-info or /model-config *)
(* is answered 503 and the pipeline is not run; a direct call of the       *)
(* service's edit_image, get_model_info or update_config on a service that *)
(* is not initialized fails with "Service not initialized" and does not    *)
(* run the pipeline.                                                       *)
C20_NotReadyAnswers503 ==
    [][ /\ (RouteStep /\ ~Available(image_edit_service))
            => (last'.code = 503 /\ last'.sent.pipeline_calls = 0)
        /\ (MethodStep /\ ~is_initialized(image_edit_service))
            => (last'.body.detail = NotInitialized /\ last'.sent.pipeline_calls = 0) ]_vars

(***************************************************************************)
(* Request validation of the Nunchaku service: models/api_models.py        *)
(* ImageEditRequest, constructed directly or by FastAPI from the JSON body *)
(* of POST /edit-image. Field values are JSON texts; Unset is a key that   *)
(* the body does not have.                                                 *)
(***************************************************************************)
DataUrl == "data:image/jpeg;base64,/9j/4AAQSkZJRg=="
ImageInputs == {Unset, DataUrl, "invalid_image_data"}
PromptInputs == {Unset, "test prompt", ""}
StepInputs == {Unset, "8", "0", "-1", "many"}
RankInputs == {Unset, "128", "64", "256"}
RequestData ==
    [image : ImageInputs, prompt : PromptInputs,
     num_inference_steps : StepInputs, rank : RankInputs]

(* the JSON texts that are integers *)
IntTexts == {"8", "0", "-1", "128", "64", "256"}

(* ImageEditRequest, lines 13-27: image and prompt are required strings,   *)
(* num_inference_steps is an int with default 8, rank is an int with       *)
(* default 128 that validate_rank restricts to 64 and 128. The result is   *)
(* the first validation error, or NoError with the constructed request.    *)
ImageEditRequest(data) ==
    LET steps == IF data.num_inference_steps = Unset THEN "8"
                 ELSE data.num_inference_steps
        rank == IF data.rank = Unset THEN "128" ELSE data.rank
    IN  IF data.image = Unset THEN [error |-> "image: Field required"]
        ELSE IF data.prompt = Unset THEN [error |-> "prompt: Field required"]
        ELSE IF steps \notin IntTexts
        THEN [error |-> "num_inference_steps: Input should be a valid integer"]
        ELSE IF rank \notin {"64", "128"}
        THEN [error |-> "rank must be either 64 or 128"]
        ELSE [error |-> NoError, image |-> data.image, prompt |-> data.prompt,
              num_inference_steps |-> steps, rank |-> rank]

(* utils/image_processor.py load_image, lines 40-76: a string that is not  *)
(* a data URL or an http URL is decoded as base64 and opened as an image,  *)
(* which fails for "invalid_image_data"; the outcomes an image allows.     *)
OutcomesOf(image) ==
    IF image = "invalid_image_data" THEN {"bad_image"} ELSE EditOutcomes

(* the constructor call of ImageEditRequest, as tests/test_api.py makes it *)
new_ImageEditRequest(data) ==
    /\ last' = Read(EditEvent("ImageEditRequest", 0,
                              [detail |-> ImageEditRequest(data).error], 0),
                    data, None)
    /\ UNCHANGED image_edit_service
    /\ WrapperIdle

(* POST /edit-image with a JSON body: FastAPI builds the ImageEditRequest  *)
(* parameter of edit_image (main.py line 133) and answers 422 itself when  *)
(* that fails; otherwise the handler runs, lines 143-174.                  *)
post_edit_image(data, outcome) ==
    /\ LET request == ImageEditRequest(data)
       IN  IF request.error # NoError
           THEN last' = Read(EditEvent("post_edit_image", 422,
                                       [detail |-> request.error], 0), data, None)
           ELSE /\ outcome \in OutcomesOf(request.image)
                /\ IF ~Available(image_edit_service)
                   THEN LET r == RaiseHTTPException(503, NotAvailable)
                        IN  last' = Read(EditEvent("post_edit_image", r.code,
                                                   [detail |-> r.detail], 0), data, None)
                   ELSE LET r == ImageEditService_edit_image(image_edit_service, outcome)
                        IN  last' = Read(EditEvent("post_edit_image", 200,
                                             [detail |-> r.error,
                                              success |-> r.error = NoError],
                                             r.pipeline_calls), data, None)
    /\ UNCHANGED image_edit_service
    /\ WrapperIdle

NextRequest ==
    \/ \E outcome \in InitOutcomes : lifespan_startup(outcome)
    \/ \E outcome \in CleanupOutcomes : cleanup(outcome)
    \/ \E data \in RequestData : new_ImageEditRequest(data)
    \/ \E data \in RequestData, outcome \in EditOutcomes : post_edit_image(data, outcome)

SpecRequest == InitEdit /\ [][NextRequest]_vars

(* C21: constructing an ImageEditRequest whose num_inference_steps is 0 or *)
(* negative fails with a validation error.                                 *)
C21_NonPositiveStepsRejected ==
    [][ (last'.op = "ImageEditRequest"
         /\ last'.input.body.num_inference_steps \in {"0", "-1"})
        => last'.body.detail # NoError ]_vars

(* C22: POST /edit-image whose body has an empty prompt and image data     *)
(* that cannot be decoded is answered 422.                                 *)
C22_EmptyPromptBadImageIs422 ==
    [][ (last'.op = "post_edit_image"
         /\ last'.input.body.prompt = ""
         /\ last'.input.body.image = "invalid_image_data")
        => last'.code = 422 ]_vars

(* The components an initialized service needs are there. *)
Loaded(svc) == svc.pipeline /\ svc.transformer

(* C23: over every sequence of initialize and cleanup calls on the         *)
(* service, is_initialized() is true only with pipeline and transformer    *)
(* loaded; after cleanup() it is false and both are unset; an initialize() *)
(* that fails raises and leaves the service uninitialized; initialize() on *)
(* an initialized service changes nothing.                                 *)
C23_InitializedMeansLoaded ==
    [][ /\ is_initialized(image_edit_service') => Loaded(image_edit_service')
        /\ last'.op = "cleanup"
            => /\ ~is_initialized(image_edit_service')
               /\ ~image_edit_service'.pipeline
               /\ ~image_edit_service'.transformer
        /\ (last'.op \in {"initialize", "lifespan_startup"} /\ last'.body.detail # NoError)
            => ~is_initialized(image_edit_service')
        /\ (last'.op = "initialize" /\ is_initialized(image_edit_service))
            => (image_edit_service' = image_edit_service /\ last'.body.detail = NoError)
      ]_vars

(***************************************************************************)
(* utils/image_processor.py: ImageProcessor.preprocess_image, a function   *)
(* of the image size. An image is its size <<width, height>>.              *)
(***************************************************************************)
MaxSide == 6

Sides == 1..MaxSide
(* max_size: 0 stands for None, which the test of line 196 treats alike *)
MaxSizes == 0..(MaxSide - 1)

(* PIL Image.resize: a size with a side below 1 raises ValueError *)
PilResize(size) ==
    IF size[1] < 1 \/ size[2] < 1
    THEN [raised |-> "height and width must be > 0", size |-> <<0, 0>>]
    ELSE [raised |-> NoError, size |-> size]

(* ImageOps.exif_transpose, line 193: an EXIF orientation of 5 to 8 swaps  *)
(* width and height                                                        *)
exif_transpose(size, transposed) ==
    IF transposed THEN <<size[2], size[1]>> ELSE size

(* ImageProcessor._resize_image, lines 221-246, with maintain_aspect_ratio *)
(* True as preprocess_image's callers leave it; int() of the quotient of   *)
(* two positive numbers is their integer quotient.                         *)
resize_image(size, max_size) ==
    LET width == size[1]
        height == size[2]
        new_width == IF width > height THEN max_size ELSE (width * max_size) \div height
        new_height == IF width > height THEN (height * max_size) \div width ELSE max_size
    IN  PilResize(<<new_width - (new_width % 2), new_height - (new_height % 2)>>)

(* ImageProcessor.preprocess_image, lines 173-219: what is raised (wrapped *)
(* by line 217) and the size of the image returned.                        *)
preprocess_image(size, transposed, max_size) ==
    LET oriented == exif_transpose(size, transposed)
        resized == IF max_size # 0 /\ Max(oriented[1], oriented[2]) > max_size
                   THEN resize_image(oriented, max_size)
                   ELSE [raised |-> NoError, size |-> oriented]
        width == resized.size[1] - (resized.size[1] % 2)
        height == resized.size[2] - (resized.size[2] % 2)
        evened == IF <<width, height>> # resized.size
                  THEN PilResize(<<width, height>>)
                  ELSE resized
    IN  IF resized.raised # NoError
        THEN [raised |-> "Image preprocessing failed", size |-> <<0, 0>>]
        ELSE IF evened.raised # NoError
        THEN [raised |-> "Image preprocessing failed", size |-> <<0, 0>>]
        ELSE evened

ImageEvent(op, input, result) ==
    Read(Event(op, 0, 0, [detail |-> result.raised, size |-> result.size],
               NoFrame, NoPath), input, None)

(* an image of some size, an orientation and a max_size are chosen *)
InitImage ==
    /\ deployment = "qwen-image-edit-nunchanku"
    /\ job_status = <<>>
    /\ issued = {}
    /\ watcher = [j \in JobIds |-> "none"]
    /\ connects = [j \in JobIds |-> 0]
    /\ files = {}
    /\ sleeping = NoSleep
    /\ image_edit_service = NoService
    /\ template = Untracked
    /\ stream = NoStream
    /\ \E width \in Sides, height \in Sides, transposed \in BOOLEAN, max_size \in MaxSizes :
          last = ImageEvent("image", [size |-> <<width, height>>, transposed |-> transposed,
                                      max_size |-> max_size],
                            [raised |-> NoError, size |-> <<width, height>>])

(* the call of preprocess_image on the chosen image *)
Preprocess ==
    /\ last.op = "image"
    /\ last' = ImageEvent("preprocess_image", last.input.body,
                          preprocess_image(last.input.body.size,
                                           last.input.body.transposed,
                                           last.input.body.max_size))
    /\ UNCHANGED image_edit_service
    /\ WrapperIdle

NextImage == Preprocess

SpecImage == InitImage /\ [][NextImage]_vars

(* C24: for every input size with both sides at least 1 and every max_size *)
(* m, preprocess_image returns an image whose larger side is at most m and *)
(* whose width and height are even and not zero.                           *)
C24_PreprocessBoundedEven ==
    (last.op = "preprocess_image" /\ last.input.body.max_size >= 1)
    => /\ last.body.detail = NoError
       /\ Max(last.body.size[1], last.body.size[2]) <= last.input.body.max_size
       /\ last.body.size[1] % 2 = 0 /\ last.body.size[1] > 0
       /\ last.body.size[2] % 2 = 0 /\ last.body.size[2] > 0

(* The step delivered a progress message to the watcher of job j. *)
ProgressDelivered(j, ev) ==
    /\ Delivered(j, ev)
    /\ ev.frame.opcode = "TEXT" /\ ev.frame.json = "object" /\ ev.frame.type = "progress"

(* C25: a progress message whose max is zero or negative is divided by 1,  *)
(* so the stored progress is value * 100 clamped to 0..100; a progress     *)
(* message with a malformed payload leaves the job map as it is and the    *)
(* watcher reading.                                                        *)
C25_NonPositiveMaxCountsAsOne ==
    [][\A j \in DOMAIN job_status :
        /\ (ProgressDelivered(j, last') /\ last'.frame.ok /\ last'.frame.max <= 0)
           => /\ j \in DOMAIN job_status'
              /\ job_status'[j].progress = Max(0, Min(100, last'.frame.value * 100))
        /\ (ProgressDelivered(j, last') /\ ~last'.frame.ok)
           => job_status' = job_status /\ watcher'[j] = "reading"]_vars

(* The frames C26 is about: binary, continuation, ping and pong frames,    *)
(* text that is not valid JSON, and a JSON object whose type is none of    *)
(* progress, executed, execution_error.                                    *)
Ignorable(f) ==
    \/ f.opcode \in {"BINARY", "CONT", "PING", "PONG"}
    \/ f.opcode = "TEXT" /\ f.json = "invalid"
    \/ /\ f.opcode = "TEXT" /\ f.json = "object"
       /\ f.type \notin {"progress", "executed", "execution_error"}

(* C26: a binary, continuation, ping or pong frame, a text frame that is   *)
(* not valid JSON, and a JSON message of any other type leave the job map  *)
(* as it is, and the watcher that received it goes on reading.             *)
C26_OtherFramesIgnored ==
    [][\A j \in JobIds :
        (Delivered(j, last') /\ Ignorable(last'.frame))
            => job_status' = job_status /\ watcher'[j] = "reading"]_vars

(* C26 case: a binary frame was delivered to the watcher of a Processing   *)
(* job, which is still Processing and still read.                          *)
C26_Witness ==
    /\ last.op = "ws_frame" /\ last.frame.opcode = "BINARY"
    /\ Known(last.job) /\ StateOf(last.job) = "processing"
    /\ watcher[last.job] = "reading"

(* The watcher of job j has ended and left the record Processing or        *)
(* Queued: the stream closed before a terminal message.                    *)
ClosedEarly(j) ==
    watcher[j] = "done" /\ Known(j) /\ StateOf(j) \notin {"completed", "error"}

(* C27: a close frame ends the watcher and leaves the job map as it is;    *)
(* from then on the record keeps its state and progress in every step,     *)
(* except that a DELETE of the job removes it.                             *)
C27_ClosedStreamKeepsRecord ==
    [][\A j \in JobIds :
        /\ (Delivered(j, last') /\ last'.frame.opcode = "CLOSE")
           => watcher'[j] = "done" /\ job_status' = job_status
        /\ ClosedEarly(j)
           => /\ watcher'[j] = "done"
              /\ IF j \in DOMAIN job_status'
                 THEN job_status'[j] = job_status[j]
                 ELSE last'.op = "delete" /\ last'.job = j]_vars

(* C27 case: the stream of a job closed at progress 50, and a status       *)
(* query, a download or a list call has since read the record.             *)
C27_Witness ==
    /\ last.op \in {"status", "download", "list"}
    /\ \E j \in JobIds :
          /\ ClosedEarly(j) /\ last.job \in {0, j}
          /\ job_status[j] = [status |-> "processing", progress |-> 50]

(* The files of job j that the network-storage search can match with the   *)
(* prefix: "api_" before the id, a searched extension, in OUTPUT_DIR or in  *)
(* FastWan.                                                                *)
PrefixedMatches(j) ==
    {f \in files : f.job = j /\ f.api
                   /\ (\E i \in 1..Len(NsExts) : f.ext = NsExts[i])
                   /\ (\E k \in 1..Len(NsSearchPaths) : f.dir = NsSearchPaths[k])}

(* C28: the search returns a file with the prefix and the job id whenever  *)
(* one exists in the root output directory or the named subfolder; a file  *)
(* that matches only the bare job id is returned only when no searched     *)
(* directory holds a prefixed one.                                         *)
C28_PrefixedBeforeBare ==
    (/\ last.op = "find" /\ deployment = "fastwan2.2-5b-network-storage"
     /\ PrefixedMatches(last.job) # {})
        => last.path \in PrefixedMatches(last.job)


(***************************************************************************)
(* SpecTemplate: POST /generate where every request loads the workflow     *)
(* from the file WORKFLOW_PATH, whose content is the variable template.    *)
(* generate_video is an async def without an await, so concurrent requests *)
(* run one after the other, in any order.                                  *)
(***************************************************************************)

(* WORKFLOW_PATH does not exist *)
NoFile ==
    [nodes |-> {}, negative_prompt |-> None, seed |-> None, steps |-> None,
     filename_prefix |-> <<"none", 0>>]

(* The contents of WORKFLOW_PATH tried: the full workflow, one without    *)
(* its last patched node, and no file.                                     *)
TemplateFiles(dep) ==
    {FullTemplate(dep),
     Template(AllNodes(dep) \ {NodeKeys(dep)[Len(NodeKeys(dep))]}),
     NoFile}

(* Variant: the workflow is read once and every request is handed that    *)
(* one object.                                                             *)
load_workflow_Cached(file) ==
    IF file = NoFile
    THEN [code |-> 500, detail |-> "Workflow file not found", workflow |-> file,
          shared |-> FALSE]
    ELSE [code |-> 200, detail |-> "none", workflow |-> file, shared |-> TRUE]

(* load_workflow: json.load builds a new document from the file on every  *)
(* call, so what modify_workflow assigns into it stays with the request    *)
(* (shared: the object returned is the stored one). FileNotFoundError is   *)
(* answered with 500.                                                      *)
load_workflow(file) ==
    IF file = NoFile
    THEN [code |-> 500, detail |-> "Workflow file not found", workflow |-> file,
          shared |-> FALSE]
    ELSE [code |-> 200, detail |-> "none", workflow |-> file, shared |-> FALSE]

(* generate_video from its first line: load_workflow, then the rest of    *)
(* the handler. modify_workflow assigns into the document it is given;     *)
(* the stored template takes the assignments only where the document is    *)
(* the stored one.                                                         *)
generate_video_loading(body, backend) ==
    LET loaded == load_workflow(template)
        modified == modify_workflow(deployment, loaded.workflow,
                                    GenerateRequest(deployment, body),
                                    uuid4 + (Draws(deployment) - 1))
    IN IF loaded.code # 200
       THEN /\ last' = Read(Event("generate", 0, loaded.code,
                                  [detail |-> loaded.detail], NoFrame, NoPath),
                            body, loaded.workflow)
            /\ UNCHANGED <<stream, template, image_edit_service, deployment, job_status, issued,
                           watcher, connects, files, sleeping>>
       ELSE /\ post_generate(loaded.workflow, body, backend)
            /\ template' = IF loaded.shared /\ modified.code = 200
                           THEN modified.workflow ELSE template

InitTemplate ==
    /\ deployment \in SubmitDeployments
    /\ job_status = <<>>
    /\ issued = {}
    /\ watcher = [j \in JobIds |-> "none"]
    /\ connects = [j \in JobIds |-> 0]
    /\ files = {}
    /\ sleeping = NoSleep
    /\ image_edit_service = NoService
    /\ template \in TemplateFiles(deployment)
    /\ stream = NoStream
    /\ last = Event("start", 0, 0, NoBody, NoFrame, NoPath)

NextTemplate ==
    \/ \E body \in Bodies, backend \in {"ok", "error"} :
          generate_video_loading(body, backend)
    \/ \E j \in JobIds : WatcherConnect(j)
    \/ \E j \in JobIds, e \in ConnectErrors : WatcherConnectFails(j, e)
    \/ \E j \in JobIds, removed \in BOOLEAN : delete_job(j, removed)

SpecTemplate == InitTemplate /\ [][NextTemplate]_vars

(* the step posted a workflow document to the backend *)
Posted(ev) == ev.op = "generate" /\ ev.sent.posts > 0

(* C29: each request is parameterized on its own copy of the template:    *)
(* whatever requests came before it and in whatever order, every field of  *)
(* the document posted for a request holds that request's value or the     *)
(* value of the stored template, its filename_prefix carries that          *)
(* request's job id and no other, and no step changes the stored template. *)
C29_OwnCopyOfTemplate ==
    [][ /\ template' = template
        /\ Posted(last') =>
             /\ \A f \in Fields :
                  last'.sent.prompt[f] \in
                     {GenerateRequest(deployment, last'.input.body)[f], template[f]}
             /\ last'.sent.prompt.nodes = template.nodes
             /\ last'.sent.prompt.filename_prefix = filename_prefix(deployment, last'.job)
             /\ last'.sent.client_id = last'.job
             /\ last'.job \notin issued ]_vars

(* C29 witness: a later request, made after another request was answered, *)
(* leaves seed to the template, and the document posted for it holds the   *)
(* seed of the stored template.                                            *)
C29_Witness ==
    /\ Posted(last)
    /\ \E j \in DOMAIN job_status : j < last.job
    /\ deployment \in FastWanDeployments
    /\ ~Truthy(GenerateRequest(deployment, last.input.body)["seed"])
    /\ last.sent.prompt.seed = template.seed
    /\ template = FullTemplate(deployment)


(* C30: in every reachable state of the job map a queued record has       *)
(* progress 0, a completed record has progress 100, and a record has an    *)
(* error entry exactly when its status is error.                           *)
C30_RecordShape ==
    \A j \in DOMAIN job_status :
        /\ StateOf(j) = "queued" => job_status[j].progress = 0
        /\ StateOf(j) = "completed" => job_status[j].progress = 100
        /\ ("error" \in DOMAIN job_status[j]) <=> (StateOf(j) = "error")

(* C30 witness: the message that completes the run has been delivered to  *)
(* a watcher and the record is completed with progress 100 and no error    *)
(* entry.                                                                  *)
C30_Witness ==
    /\ last.op = "ws_frame" /\ last.frame.type = "executed"
    /\ Known(last.job) /\ StateOf(last.job) = "completed"
    /\ job_status[last.job].progress = 100
    /\ "error" \notin DOMAIN job_status[last.job]
    /\ watcher[last.job] = "done"


(* the step was taken by the watcher of job j *)
WatcherStep(j, ev) ==
    ev.op \in {"ws_connect", "ws_connect_error", "ws_frame", "ws_recv_error"} /\ ev.job = j

(* C31: each successfully submitted job has exactly one completion        *)
(* watcher, started only by the submission that was answered with the      *)
(* job's id, never started again and connected at most once; and a step    *)
(* of job A's watcher changes no record but the one keyed by A, whatever   *)
(* run the delivered message names.                                        *)
C31_OneWatcherOwnRecord ==
    [][\A j \in JobIds :
        /\ Answered(last') /\ last'.job = j => watcher[j] = "none" /\ watcher'[j] = "scheduled"
        /\ watcher[j] = "none" /\ watcher'[j] # "none"
             => Answered(last') /\ last'.job = j /\ j \in DOMAIN job_status'
        /\ watcher[j] # "none" => watcher'[j] # "none"
        /\ watcher[j] \in {"reading", "done"} => watcher'[j] # "scheduled"
        /\ watcher[j] = "done" => watcher'[j] = "done"
        /\ connects'[j] <= 1
        /\ WatcherStep(j, last')
             => \A k \in JobIds \ {j} :
                   /\ k \in DOMAIN job_status' <=> k \in DOMAIN job_status
                   /\ k \in DOMAIN job_status => job_status'[k] = job_status[k]]_vars

(* C31 witness: with two jobs in flight, the watcher of job 1 was          *)
(* delivered the executed message of job 2's run for the final node, and   *)
(* both records are still processing.                                      *)
C31_Witness ==
    /\ last.op = "ws_frame" /\ last.job = 1
    /\ last.frame.type = "executed" /\ last.frame.prompt_id = PromptOf(2)
    /\ last.frame.node = FinalNode(deployment)
    /\ watcher[1] = "reading" /\ watcher[2] = "reading"
    /\ Known(1) /\ StateOf(1) = "processing"
    /\ Known(2) /\ StateOf(2) = "processing"


(***************************************************************************)
(* SpecEmit: the backend as the sender of the event stream. POST /prompt   *)
(* hands the run to the backend with client_id = job id (queue_workflow);  *)
(* the job's watcher opens ws://.../ws?clientId=job_id later, in the       *)
(* background task. A message the backend sends for a client id reaches    *)
(* the socket opened with that id if there is one at that moment; a        *)
(* socket receives nothing that was sent before it was opened.             *)
(***************************************************************************)

(* The messages that end the run of job j: executed for the final output  *)
(* node, and execution_error, both with the run id of j.                   *)
TerminalFrames(j) ==
    {Frame("TEXT", "object", "executed", FALSE, 0, 0, PromptOf(j), FinalNode(deployment),
           Missing),
     Frame("TEXT", "object", "execution_error", FALSE, 0, 0, PromptOf(j), "none",
           "CUDA OOM")}

(* The backend sends f for the run of job j, once the run was queued. *)
BackendEmits(j, f) ==
    /\ watcher[j] # "none"
    /\ ~stream[j].emitted
    /\ stream' = [stream EXCEPT ![j] =
                    [pending |-> IF watcher[j] = "reading"
                                 THEN Append(@.pending, f) ELSE @.pending,
                     emitted |-> TRUE]]
    /\ last' = Event("emit", j, 0, NoBody, f, NoPath)
    /\ UNCHANGED <<template, image_edit_service, deployment, job_status, issued, watcher,
                   connects, files, sleeping>>

(* ws.recv_frame() returns the next message of the socket and the loop of *)
(* wait_for_completion handles it.                                         *)
WatcherReads(j) ==
    /\ watcher[j] = "reading"
    /\ stream[j].pending # <<>>
    /\ LET f == Head(stream[j].pending)
           r == HandleFrame(deployment, job_status, j, f)
       IN /\ job_status' = r.js
          /\ watcher' = [watcher EXCEPT ![j] = IF r.stop THEN "done" ELSE "reading"]
          /\ last' = Event("ws_frame", j, 0, NoBody, f, NoPath)
    /\ stream' = [stream EXCEPT ![j].pending = Tail(@)]
    /\ UNCHANGED <<template, image_edit_service, deployment, issued, connects, files,
                   sleeping>>

NextEmit ==
    \/ \E backend \in {"ok", "error"} : generate_video(backend)
    \/ \E j \in JobIds : WatcherConnect(j)
    \/ \E j \in JobIds : \E f \in TerminalFrames(j) : BackendEmits(j, f)
    \/ \E j \in JobIds : WatcherReads(j)

(* The thread pool runs every scheduled task, and recv_frame returns when *)
(* a message lies in the socket.                                           *)
FairEmit ==
    /\ \A j \in JobIds : WF_vars(WatcherConnect(j))
    /\ \A j \in JobIds : WF_vars(WatcherReads(j))

SpecEmit == Init /\ [][NextEmit]_vars /\ FairEmit

(* the backend has just sent a message of this type for the run of job j *)
Emitted(j, type) == last.op = "emit" /\ last.job = j /\ last.frame.type = type

(* C32: once the backend has sent, for the run of a submitted job, the    *)
(* executed message of the final output node, the job's record eventually  *)
(* is completed, and once it has sent an execution_error message the       *)
(* record eventually is failed, whether the message was sent before or     *)
(* after the watcher opened its event stream.                              *)
C32_EmittedRunEnds ==
    \A j \in JobIds :
        /\ Emitted(j, "executed") ~> (Known(j) /\ StateOf(j) = "completed")
        /\ Emitted(j, "execution_error") ~> (Known(j) /\ StateOf(j) = "error")


(* C33: every record of the job map, whatever its status, carries the     *)
(* backend run id (prompt_id) it was given at submission and, in           *)
(* wan2.2-14b-loras-v1, its input_image name.                              *)
C33_RecordKeepsRunId ==
    \A j \in DOMAIN job_status :
        /\ "prompt_id" \in DOMAIN job_status[j]
        /\ job_status[j].prompt_id = PromptOf(j)
        /\ deployment = "wan2.2-14b-loras-v1" => "input_image" \in DOMAIN job_status[j]


(* C34: an execution_error message whose prompt_id is not the run id of   *)
(* the job whose watcher reads it leaves the job's record and watcher as   *)
(* they were; a watcher's message makes a record failed only if it is an   *)
(* execution_error with the job's own run id.                              *)
C34_ForeignErrorIgnored ==
    [][\A j \in JobIds :
        (Delivered(j, last') /\ last'.frame.opcode = "TEXT" /\ last'.frame.json = "object"
           /\ last'.frame.type = "execution_error"
           /\ last'.frame.prompt_id # PromptOf(j) /\ Known(j))
        => /\ Known(j)' /\ job_status'[j] = job_status[j]
           /\ watcher'[j] = watcher[j]]_vars


(***************************************************************************)
(* SpecArtifacts: up to MaxJobs submissions whose runs end, while the      *)
(* backend writes the finished files of the submitted jobs and clients     *)
(* query, download and delete any job.                                     *)
(***************************************************************************)
NextArtifacts ==
    \/ generate_video("ok")
    \/ \E j \in JobIds : WatcherConnect(j)
    \/ \E j \in JobIds, f \in CoreFrames : WatcherRecv(j, f)
    \/ \E j \in JobIds : get_job_status_base(j)
    \/ \E j \in JobIds : get_job_status_copy(j)
    \/ get_job_status_retry
    \/ get_job_status_size
    \/ get_job_status_stable
    \/ \E j \in JobIds, exists \in BOOLEAN : download_video(j, exists)
    \/ download_video_send
    \/ \E j \in JobIds, removed \in BOOLEAN : delete_job(j, removed)
    \/ \E f \in OutputFiles(deployment) : BackendWrites(f)
    \/ \E f \in OutputFiles(deployment) : FileVanishes(f)

SpecArtifacts == Init /\ [][NextArtifacts]_vars

(* the file an answer of GET /status, GET /download or DELETE /jobs is    *)
(* about: the file resolved for the request                                *)
Resolving(ev) == ev.op \in {"status", "download", "delete"} /\ ev.path # NoPath

(* C35: the file that GET /download/{id} serves, GET /status/{id} reports *)
(* and DELETE /jobs/{id} removes has the id of that job in its name, and   *)
(* a DELETE removes no file of another job.                                *)
C35_OwnArtifactOnly ==
    [][/\ Resolving(last') => last'.path.job = last'.job
       /\ last'.op = "delete" => \A f \in files \ files' : f.job = last'.job]_vars


(* C36: a GET /status response that reports video_ready = true does not  *)
(* carry the message that the file was not found, and one that reports     *)
(* video_ready = false carries no download_url, however the artifact       *)
(* appeared and disappeared between the queries.                           *)
C36_ReadinessFieldsAgree ==
    (last.op = "status" /\ last.code = 200 /\ "video_ready" \in DOMAIN last.body)
    => IF last.body.video_ready
       THEN "message" \in DOMAIN last.body => last.body.message # NotFoundMessage
       ELSE "download_url" \notin DOMAIN last.body


(***************************************************************************)
(* SpecRank: ImageEditService.edit_image with the rank of the request,     *)
(* on a service that has been initialized. The record of the service is    *)
(* extended by default_rank (the entry of _model_config), set_rank (what   *)
(* the transformer object offers) and rank (the rank the transformer runs  *)
(* at).                                                                    *)
(***************************************************************************)
Ranks == {64, 128}
StepCounts == {4, 8, 20}

(* The transformer objects get_nunchaku_transformer can return: the class *)
(* of utils/model_utils.py lines 25-51, whose set_rank sets 128 whatever   *)
(* it is given ("forces128"); a transformer of the installed library with  *)
(* a set_rank that takes the rank ("takes"); one without the attribute     *)
(* ("absent").                                                             *)
TransformerKinds == {"forces128", "takes", "absent"}

(* transformer.set_rank(rank): the rank afterwards *)
set_rank(kind, rank) == IF kind = "forces128" THEN 128 ELSE rank

(* The service after initialize: default_rank is 128 or the highest rank  *)
(* of the model files found (lines 66-69); get_nunchaku_transformer builds *)
(* the transformer with rank 128 whatever it is asked for (lines 228-230). *)
RankedService(kind, default_rank) ==
    [created |-> TRUE, _initialized |-> TRUE, pipeline |-> TRUE, transformer |-> TRUE,
     model_config |-> NoService.model_config,
     default_rank |-> default_rank, set_rank |-> kind, rank |-> 128]

InitRank ==
    /\ deployment = "qwen-image-edit-nunchanku"
    /\ job_status = <<>>
    /\ issued = {}
    /\ watcher = [j \in JobIds |-> "none"]
    /\ connects = [j \in JobIds |-> 0]
    /\ files = {}
    /\ sleeping = NoSleep
    /\ \E kind \in TransformerKinds, default_rank \in Ranks :
          image_edit_service = RankedService(kind, default_rank)
    /\ template = Untracked
    /\ stream = NoStream
    /\ last = Event("start", 0, 0, NoBody, NoFrame, NoPath)

(* edit_image, lines 236-239 and 265-271: set_rank is called when the     *)
(* transformer has it and the rank of the request differs from             *)
(* default_rank; the pipeline then runs at the rank the transformer has;   *)
(* model_info reports the rank and the steps of the request.               *)
edit_image_ranked(rank, steps, outcome) ==
    LET svc == image_edit_service
        r == ImageEditService_edit_image(svc, outcome)
        reached == outcome # "bad_image"
        after == IF reached /\ svc.set_rank # "absent" /\ rank # svc.default_rank
                 THEN [svc EXCEPT !.rank = set_rank(svc.set_rank, rank)]
                 ELSE svc
    IN /\ image_edit_service' = after
       /\ last' = Sent(Event("edit_image", 0, 200,
                             [detail |-> r.error, success |-> r.error = NoError,
                              model_info |-> [rank |-> rank, steps |-> steps]],
                             NoFrame, NoPath),
                       [pipeline_calls |-> r.pipeline_calls, rank |-> after.rank])
       /\ WrapperIdle

(* update_config, lines 329-335: default_rank is taken only when it is    *)
(* 128, and the transformer is then set to it.                             *)
update_default_rank(value) ==
    /\ image_edit_service' =
          IF value = 128
          THEN [image_edit_service EXCEPT
                   !.default_rank = 128,
                   !.rank = IF image_edit_service.set_rank # "absent"
                            THEN set_rank(image_edit_service.set_rank, 128) ELSE @]
          ELSE image_edit_service
    /\ last' = Sent(Event("update_config", 0, 200, [detail |-> NoError], NoFrame, NoPath),
                    [pipeline_calls |-> 0, rank |-> value])
    /\ WrapperIdle

NextRank ==
    \/ \E rank \in Ranks, steps \in StepCounts, outcome \in EditOutcomes :
          edit_image_ranked(rank, steps, outcome)
    \/ \E value \in Ranks : update_default_rank(value)

SpecRank == InitRank /\ [][NextRank]_vars

(* C37: the rank a successful edit reports in model_info is the rank the  *)
(* transformer was set to while the pipeline ran for that request, for     *)
(* any sequence of requests with rank 64 or 128.                           *)
C37_ReportedRankIsUsedRank ==
    (last.op = "edit_image" /\ last.body.success)
    => last.body.model_info.rank = last.sent.rank


(* C38: every optional field the body of a request sets, a falsy value    *)
(* such as seed 0 included, is in the workflow posted for the request.     *)
C38_ProvidedValueIsWritten ==
    [][Posted(last') =>
         \A f \in Fields :
            last'.input.body[f] # Unset => last'.sent.prompt[f] = last'.input.body[f]]_vars

====
